---------------------------- MODULE Spec2Model ----------------------------
(***************************************************************************)
(* STGCN inverse optimizer, its hyperparameter validator, the server's     *)
(* shape checks and the checkpoint loader, as state machines.              *)
(*                                                                         *)
(*   SpecOpt    the optimizer loop of run_optimize_from_csv /              *)
(*              optimize_params_api  (attached_assets/app_1755755635410.py)*)
(*   SpecRunner STGCNRunner._validate_execution_params and the hand-over   *)
(*              of the sanitized flags to app.py's argparse                *)
(*              (CP-DevFolder/server/stgcnRunner.py)                       *)
(*   SpecApi    ensure_batched, predict_kpi and optimize_params_api on the *)
(*              shapes of their arrays                                     *)
(*   SpecLoad   load_artifacts                                             *)
(*   SpecConc   two server calls interleaved on the shared model           *)
(*   SpecFn     z_apply / z_inv, GraphConv, TemporalConv and               *)
(*              flat8_to_stgcn_x as functions of their arguments           *)
(*   SpecExec   STGCNRunner.execute_with_data: temporary files, the        *)
(*              subprocess and the returned mapping                        *)
(*   SpecStep   optimize_params_api statement by statement                 *)
(*   SpecModel  ModelRunner.run_model on a state-dict checkpoint           *)
(*              (CP-DevFolder/server/python_runner.py)                     *)
(*                                                                         *)
(* Numbers.  Normalized (z-score) values are integers: one unit is one     *)
(* step of the grid the decision array moves on.  The gradient depends on  *)
(* the trained weights, which the program only consumes; each iteration    *)
(* takes it as an unknown sign per element.                                *)
(***************************************************************************)
EXTENDS Integers, Sequences, FiniteSets, TLC

VARIABLES
    \* ---- optimizer call (run_optimize_from_csv / optimize_params_api)
    o_pc,          \* "idle" | "call" | "loop" | "done"
    T,             \* time length of the target KPI array
    has_base,      \* orig_params_path / req.orig_params supplied
    base_in,       \* the supplied baseline, normalized, one row over time
    steps,         \* requested iteration count
    zmin, zmax,    \* clamp bounds
    beta,          \* weight of loss_dev
    xz0,           \* normalized baseline, or zeros
    opt_params,    \* the decision array (one row over time)
    step,          \* loop variable of `for step in range(int(steps))`
    iters,         \* executions of the loop body so far
    loss_dev,      \* loss_dev of the last iteration, times the element count
    out,           \* the returned array, <<>> before finalization
    \* ---- one optimize call statement by statement, on one element
    p_pc,          \* "idle" | "call" | "forward" | "loss" | "backward" |
                   \* "update" | "clamp" | "final" | "done"
    p_req,         \* the request, the scaler stats and the weight
    p_xz0,         \* the array xz0
    p_base,        \* the tensor base of the current iteration
    p_x,           \* opt_params
    p_m,           \* Adam's moment estimate
    p_k,           \* iterations completed
    p_pred,        \* pred of the current iteration
    p_dev,         \* loss_dev of the current iteration
    p_g,           \* opt_params.grad
    p_denorm,      \* calls of z_inv so far
    p_out,         \* the returned value, NoArray before the return
    \* ---- STGCNRunner.execute_with_data, from the validation of the flags on
    r_pc,             \* "idle" | "input" | "config" | "validating" |
                      \* "command" | "running" | "failed" | "aborted" |
                      \* "returned" (before the validation)
    execution_config, \* the mapping, as its (key, raw value) items in order
    r_i,              \* the item _validate_execution_params looks at next
    safe_params,      \* the sanitized mapping, as (key, value) items in order
    v_exc,            \* the exception that left _validate_execution_params
    cmd_flags,        \* the (--key, str(value)) pairs appended to cmd_args
    cfg,              \* the hyperparameters run_optimize_from_csv is called with
    e_input,          \* input_data, by what pandas makes of it
    e_files,          \* the temporary files of the call that exist
    e_proc,           \* how subprocess.run ended and what it left in the
                      \* output file
    e_ret,            \* the mapping execute_with_data returned
    \* ---- one call of ensure_batched, predict_kpi or optimize_params_api,
    \*      on the shapes of its arrays
    a_pc,          \* "idle" | "called" | "returned" | "raised"
    a_fn,          \* which of the three is called
    a_arr,         \* shape of arr / req.params / req.target_kpi
    a_last,        \* last_dim of a direct ensure_batched call
    a_idx,         \* req.param_indices / req.kpi_indices
    a_base,        \* shape of req.orig_params, NoArray when it is None
    a_steps,       \* req.steps
    a_raw,         \* req.return_raw
    a_dec,         \* shape of the decision array opt_params, once created
    a_runs,        \* forward evaluations of STGCN_MODEL in the call
    a_exc,         \* the exception that ended the call, "none" otherwise
    a_out,         \* shape of the returned array, NoArray when none is returned
    a_pred,        \* shape of pred, NoArray when no forward pass has run
    \* ---- load_artifacts
    l_pc,          \* "idle" | "called" | "returned" | "raised"
    state,         \* what torch.load finds at model_path
    scaler_file,   \* what open / json.load find at scaler_path
    l_exc,         \* the exception that left load_artifacts, "none" otherwise
    l_stgcn,       \* how the returned stgcn got its weights, "none" if not returned
    l_head,        \* how the returned kpi_head got its weights
    l_scaler,      \* TRUE when a scaler is returned
    l_sg_given,    \* the mapping handed to stgcn.load_state_dict in the
                   \* state_dict branch, as (name, name in the artifact) pairs
    l_kh_given,    \* the same for kpi_head.load_state_dict
    l_sg_assigned, \* the stgcn parameters that took a value from the artifact
    l_kh_assigned, \* the same for kpi_head
    \* ---- ModelRunner.run_model on a state-dict checkpoint (python_runner.py)
    m_data,        \* input_data: the values of the mapping, in its order
    m_specs,       \* input_specs: the type of the spec of each value, <<>> when
                   \* no specs are given
    m_extra,       \* TRUE when input_specs also names a key input_data lacks
    m_outspecs,    \* len(output_specs)
    m_gen,         \* numbers drawn so far from the process's torch generator
    m_ret,         \* per run_model call of the process: what it returned
    \* ---- concurrent predict_kpi / optimize_params_api calls on the shared
    \*      STGCN_MODEL, KPI_HEAD and ADJ (values on the integer grid)
    c_req,         \* per call: the request
    c_pc,          \* per call: "start" | "forward" | "backward" | "step" |
                   \*           "clamp" | "final" | "done"
    c_k,           \* per call: iterations completed
    c_x,           \* per call: opt_params
    c_m,           \* per optimizer: Adam's moment estimate
    c_t,           \* per optimizer: Adam's step counter
    c_pred,        \* per call: pred of the current iteration
    c_g,           \* per call: opt_params.grad
    c_out,         \* per call: the returned value, NoArray before the return
    g_weights,     \* the weights of STGCN_MODEL and KPI_HEAD
    g_adj,         \* ADJ
    g_wgrad,       \* .grad of the weights, 0 while it is None
    g_writers,     \* the calls whose backward pass has accumulated into it
    \* ---- one application of z_apply/z_inv, GraphConv.forward or TemporalConv
    f_pc,          \* "idle" | "called" | "applied" (z_apply done) | "returned"
    f_fn,          \* the function applied
    f_arg,         \* its arguments
    f_res          \* what it returned, and what it left in its arguments

stepVars == <<p_pc, p_req, p_xz0, p_base, p_x, p_m, p_k, p_pred, p_dev, p_g,
              p_denorm, p_out>>

optVars == <<o_pc, T, has_base, base_in, steps, zmin, zmax, beta, xz0,
             opt_params, step, iters, loss_dev, out, stepVars>>

execVars == <<e_input, e_files, e_proc, e_ret>>

runVars == <<r_pc, execution_config, r_i, safe_params, v_exc, cmd_flags, cfg,
             execVars>>

apiVars == <<a_pc, a_fn, a_arr, a_last, a_idx, a_base, a_steps, a_raw, a_pred, a_dec,
             a_runs, a_exc, a_out>>

modelVars == <<m_data, m_specs, m_extra, m_outspecs, m_gen, m_ret>>

loadVars == <<l_pc, state, scaler_file, l_exc, l_stgcn, l_head, l_scaler,
              l_sg_given, l_kh_given, l_sg_assigned, l_kh_assigned, modelVars>>

concVars == <<c_req, c_pc, c_k, c_x, c_m, c_t, c_pred, c_g, c_out,
              g_weights, g_adj, g_wgrad, g_writers>>

fnVars == <<f_pc, f_fn, f_arg, f_res>>

vars == <<optVars, runVars, apiVars, loadVars, concVars, fnVars>>

-----------------------------------------------------------------------------
(* Bounds of the model *)
MaxT == 2
MaxSteps == 2
MaxClamp == 1
MaxBase == 2
MaxEntries == 2
MaxRank == 3
MaxDim == 2
MaxApiSteps == 1
NCalls == 2
MaxConcSteps == 2
MaxRows == 2
MaxFeat == 2
MaxConvT == 2
MaxKernel == 4
MaxNodes == 2
MaxOutRows == 2
MaxLoopSteps == 2
MaxBatch == 2
MaxFlatT == 2

-----------------------------------------------------------------------------
(* Helpers on rows *)
Rows(n, S) == [1..n -> S]

RECURSIVE SumTo(_, _)
SumTo(f, n) == IF n = 0 THEN 0 ELSE f[n] + SumTo(f, n - 1)

\* nn.MSELoss()(a, b) times the number of elements: the sum of squared
\* differences (the mean divides it by the fixed element count)
mse(a, b) == SumTo([t \in 1..Len(a) |-> (a[t] - b[t]) * (a[t] - b[t])], Len(a))

\* max(x, lo) only
ClampLowOnly(x, lo, hi) == IF x < lo THEN lo ELSE x

\* torch.Tensor.clamp_(lo, hi) on one element: min(max(x, lo), hi)
clamp(x, lo, hi) ==
    LET m == IF x < lo THEN lo ELSE x
    IN  IF m > hi THEN hi ELSE m

\* the sign of d(loss)/d(opt_params[t]), unknown: it depends on the weights
GradSigns(n) == Rows(n, {-1, 0, 1})

\* optimizer.step(): Adam moves each element against its gradient's sign
AdamStep(x, g) == [t \in 1..Len(x) |-> x[t] - g[t]]

\* opt_params.clamp_(zmin, zmax)
ClampAll(x, lo, hi) == [t \in 1..Len(x) |-> clamp(x[t], lo, hi)]

Zeros(n) == [t \in 1..n |-> 0]

\* loss_dev as the loop body computes it
LossDevNoGuard(present, x, b) == mse(x, b)
LossDev(present, x, b) == IF present THEN mse(x, b) ELSE 0

\* range(int(steps)) has max(steps, 0) elements
RangeLenNoFloor(n) == IF n < 0 THEN 0 ELSE n + 1
RangeLen(n) == IF n < 0 THEN 0 ELSE n

-----------------------------------------------------------------------------
(* The optimizer call *)

OptInputs ==
    /\ T \in 1..MaxT
    /\ has_base \in BOOLEAN
    /\ base_in \in IF has_base THEN Rows(T, {-MaxBase, 0, MaxBase}) ELSE {<<>>}
    /\ steps \in -1..MaxSteps
    /\ zmin \in -MaxClamp..MaxClamp
    /\ zmax \in -MaxClamp..MaxClamp
    /\ beta \in {0, 2}

\* an optional value: None, or the value
NoArray == [some |-> FALSE, v |-> <<>>]
Some(x) == [some |-> TRUE, v |-> x]

\* no statement-by-statement call
StepIdle ==
    /\ p_pc = "idle" /\ p_req = <<>> /\ p_xz0 = 0 /\ p_base = 0 /\ p_x = 0
    /\ p_m = 0 /\ p_k = 0 /\ p_pred = 0 /\ p_dev = 0 /\ p_g = 0
    /\ p_denorm = 0 /\ p_out = NoArray

\* no call of the loop as a whole
CallIdle ==
    /\ o_pc = "idle" /\ T = 1 /\ has_base = FALSE /\ base_in = <<>>
    /\ steps = 0 /\ zmin = 0 /\ zmax = 0 /\ beta = 0
    /\ xz0 = <<>> /\ opt_params = <<>> /\ step = 0 /\ iters = 0
    /\ loss_dev = 0 /\ out = <<>>

OptIdle == CallIdle /\ StepIdle

\* no subprocess has run; nothing is returned
NoProcess == [end |-> "none", rows |-> 0]
NoReturn == [status |-> "none", predictions |-> 0, confidence |-> 0,
             processingTime |-> 0]

\* outside a whole execute_with_data call
ExecIdle ==
    /\ e_input = "none" /\ e_files = {} /\ e_proc = NoProcess /\ e_ret = NoReturn

RunIdle ==
    /\ r_pc = "idle" /\ execution_config = <<>> /\ r_i = 1
    /\ safe_params = <<>> /\ v_exc = "none" /\ cmd_flags = <<>> /\ cfg = <<>>
    /\ ExecIdle

ApiIdle ==
    /\ a_pc = "idle" /\ a_fn = "none" /\ a_arr = <<>> /\ a_last = 0
    /\ a_idx = NoArray /\ a_base = NoArray /\ a_steps = 0 /\ a_raw = FALSE
    /\ a_dec = NoArray /\ a_runs = 0 /\ a_exc = "none" /\ a_out = NoArray
    /\ a_pred = NoArray

\* no load_artifacts call
NoState == [kind |-> "none", keys |-> {}, stgcn_ok |-> FALSE, head_ok |-> FALSE,
            sd |-> "none", names |-> {}]

\* the two run_model calls of one process
Runs == {1, 2}

NotRun == [exc |-> "not run", shape |-> <<>>, at |-> 0, named |-> FALSE]

\* no run_model call
ModelIdle ==
    /\ m_data = <<>> /\ m_specs = <<>> /\ m_extra = FALSE /\ m_outspecs = 0
    /\ m_gen = 0 /\ m_ret = [c \in Runs |-> NotRun]

LoaderIdle ==
    /\ l_pc = "idle" /\ state = NoState /\ scaler_file = "none"
    /\ l_exc = "none" /\ l_stgcn = "none" /\ l_head = "none" /\ l_scaler = FALSE
    /\ l_sg_given = {} /\ l_kh_given = {}
    /\ l_sg_assigned = {} /\ l_kh_assigned = {}

LoadIdle == LoaderIdle /\ ModelIdle

\* no server call in flight
ConcIdle ==
    /\ c_req = <<>> /\ c_pc = <<>> /\ c_k = <<>> /\ c_x = <<>>
    /\ c_m = <<>> /\ c_t = <<>> /\ c_pred = <<>> /\ c_g = <<>> /\ c_out = <<>>
    /\ g_weights = 0 /\ g_adj = 0 /\ g_wgrad = 0 /\ g_writers = {}

\* no function applied
FnIdle == f_pc = "idle" /\ f_fn = "none" /\ f_arg = <<>> /\ f_res = <<>>

InitOpt ==
    /\ o_pc = "call"
    /\ OptInputs
    /\ xz0 = <<>> /\ opt_params = <<>> /\ step = 0 /\ iters = 0
    /\ loss_dev = 0 /\ out = <<>>
    /\ StepIdle
    /\ RunIdle /\ ApiIdle /\ LoadIdle /\ ConcIdle /\ FnIdle

\* lines 246-259 / 373-382: xz0, the clone that becomes the decision array
OptInitialize ==
    /\ o_pc = "call"
    /\ xz0' = IF has_base THEN base_in ELSE Zeros(T)
    /\ opt_params' = xz0'
    /\ step' = 0
    /\ o_pc' = "loop"
    /\ UNCHANGED <<T, has_base, base_in, steps, zmin, zmax, beta, iters,
                   loss_dev, out>>
    /\ UNCHANGED stepVars
    /\ UNCHANGED <<runVars, apiVars, loadVars, concVars, fnVars>>

\* lines 261-278 / 383-398: one pass of the loop body
OptIterate ==
    /\ o_pc = "loop"
    /\ step < RangeLen(steps)
    /\ loss_dev' = LossDev(has_base, opt_params, xz0)
    /\ \E g \in GradSigns(T) :
          opt_params' = ClampAll(AdamStep(opt_params, g), zmin, zmax)
    /\ step' = step + 1
    /\ iters' = iters + 1
    /\ UNCHANGED <<o_pc, T, has_base, base_in, steps, zmin, zmax, beta, xz0, out>>
    /\ UNCHANGED stepVars
    /\ UNCHANGED <<runVars, apiVars, loadVars, concVars, fnVars>>

\* lines 283-294 / 399-405: the loop is exhausted
OptFinalize ==
    /\ o_pc = "loop"
    /\ ~(step < RangeLen(steps))
    /\ out' = opt_params
    /\ o_pc' = "done"
    /\ UNCHANGED <<T, has_base, base_in, steps, zmin, zmax, beta, xz0,
                   opt_params, step, iters, loss_dev>>
    /\ UNCHANGED stepVars
    /\ UNCHANGED <<runVars, apiVars, loadVars, concVars, fnVars>>

NextOpt == OptInitialize \/ OptIterate \/ OptFinalize

SpecOpt == InitOpt /\ [][NextOpt]_vars

-----------------------------------------------------------------------------
(* Python numbers.  A finite float is ip + fp / FracDen with ip its floor   *)
(* and 0 <= fp < FracDen (resolution 1e-7, enough for the bound 1e-6 of lr  *)
(* beside the bound 10000 of steps); inf, -inf and nan are their own kinds. *)

FracDen == 10 * 1000 * 1000

Fin(ip, fp) == [k |-> "fin", ip |-> ip, fp |-> fp]
Whole(n) == Fin(n, 0)
PosInf == [k |-> "inf", ip |-> 0, fp |-> 0]
NegInf == [k |-> "ninf", ip |-> 0, fp |-> 0]
NaN == [k |-> "nan", ip |-> 0, fp |-> 0]

\* a <= b on floats as Python compares them: every comparison with nan is False
FloatLeq(a, b) ==
    CASE a.k = "nan" \/ b.k = "nan" -> FALSE
      [] a.k = "ninf" \/ b.k = "inf" -> TRUE
      [] a.k = "inf" \/ b.k = "ninf" -> FALSE
      [] OTHER -> a.ip < b.ip \/ (a.ip = b.ip /\ a.fp <= b.fp)

\* -x for a finite x
FloatNeg(a) == IF a.fp = 0 THEN Fin(-a.ip, 0) ELSE Fin(-a.ip - 1, FracDen - a.fp)

\* results of a conversion: a value, or the exception it raises
Ok(v) == [exc |-> "none", val |-> v]
Raise(e) == [exc |-> e, val |-> NaN]

\* int(x) for a float x: truncation toward zero; OverflowError for an
\* infinity, ValueError for nan
IntOfFloat(a) ==
    CASE a.k = "nan" -> Raise("ValueError")
      [] a.k \in {"inf", "ninf"} -> Raise("OverflowError")
      [] OTHER -> Ok(IF a.ip >= 0 \/ a.fp = 0 THEN a.ip ELSE a.ip + 1)

(* Strings are tuples of one-character strings. *)
Digits == <<"0", "1", "2", "3", "4", "5", "6", "7", "8", "9">>
IsDigit(c) == \E i \in 1..10 : Digits[i] = c
DigitVal(c) == (CHOOSE i \in 1..10 : Digits[i] = c) - 1

RECURSIVE Pow10(_)
Pow10(n) == IF n = 0 THEN 1 ELSE 10 * Pow10(n - 1)

RECURSIVE DigitsVal(_)
DigitsVal(ds) ==
    IF ds = <<>> THEN 0
    ELSE 10 * DigitsVal(SubSeq(ds, 1, Len(ds) - 1)) + DigitVal(ds[Len(ds)])

AllDigits(ds) == \A i \in 1..Len(ds) : IsDigit(ds[i])

RECURSIVE Strip(_)
Strip(s) ==
    IF s = <<>> THEN s
    ELSE IF s[1] = " " THEN Strip(Tail(s))
    ELSE IF s[Len(s)] = " " THEN Strip(SubSeq(s, 1, Len(s) - 1))
    ELSE s

\* the first position of character c in s, 0 when absent
Find(s, c) == IF \E i \in 1..Len(s) : s[i] = c
              THEN CHOOSE i \in 1..Len(s) : s[i] = c /\ \A j \in 1..(i - 1) : s[j] # c
              ELSE 0

\* [sign] digits: the exponent of a float literal
SignedIntOk(s) ==
    LET body == IF s # <<>> /\ s[1] \in {"+", "-"} THEN Tail(s) ELSE s
    IN  body # <<>> /\ AllDigits(body)
SignedIntVal(s) ==
    IF s[1] = "-" THEN - DigitsVal(Tail(s))
    ELSE IF s[1] = "+" THEN DigitsVal(Tail(s))
    ELSE DigitsVal(s)

\* the value of mantissa digits m (an integer) times 10^k, k = exponent minus
\* the number of fraction digits; a magnitude past the double range is inf
Scaled(m, nd, k) ==
    IF m = 0 THEN Whole(0)
    ELSE IF nd + k > 309 THEN PosInf
    ELSE IF k >= 0 THEN Whole(m * Pow10(k))
    ELSE LET den == Pow10(-k)
         IN  Fin(m \div den, (m % den) * (FracDen \div den))

\* float(s) for a string s: surrounding blanks stripped, an optional sign,
\* then inf / infinity / nan, or digits[.digits][e[sign]digits]
Decimal(ipd, fpd, expo) ==
    IF /\ AllDigits(ipd) /\ AllDigits(fpd) /\ Len(ipd) + Len(fpd) > 0
       /\ SignedIntOk(expo)
    THEN Ok(Scaled(DigitsVal(ipd \o fpd), Len(ipd) + Len(fpd),
                   SignedIntVal(expo) - Len(fpd)))
    ELSE Raise("ValueError")

SplitAtDot(mant, dot, expo) ==
    Decimal(IF dot = 0 THEN mant ELSE SubSeq(mant, 1, dot - 1),
            IF dot = 0 THEN <<>> ELSE SubSeq(mant, dot + 1, Len(mant)),
            expo)

SplitMantissa(mant, expo) == SplitAtDot(mant, Find(mant, "."), expo)

SplitAtExp(t, ePos) ==
    SplitMantissa(IF ePos = 0 THEN t ELSE SubSeq(t, 1, ePos - 1),
                  IF ePos = 0 THEN <<"0">> ELSE SubSeq(t, ePos + 1, Len(t)))

Unsigned(t) ==
    CASE t \in {<<"i", "n", "f">>, <<"i", "n", "f", "i", "n", "i", "t", "y">>} -> Ok(PosInf)
      [] t = <<"n", "a", "n">> -> Ok(NaN)
      [] t # <<>> /\ t[1] \in {"+", "-", " "} -> Raise("ValueError")
      [] OTHER -> SplitAtExp(t, Find(t, "e"))

Negated(u) ==
    CASE u.exc # "none" -> u
      [] u.val.k = "inf" -> Ok(NegInf)
      [] u.val.k = "nan" -> Ok(NaN)
      [] OTHER -> Ok(FloatNeg(u.val))

Signed(t) ==
    CASE t # <<>> /\ t[1] = "-" -> Negated(Unsigned(Tail(t)))
      [] t # <<>> /\ t[1] = "+" -> Unsigned(Tail(t))
      [] OTHER -> Unsigned(t)

FloatOfStr(s) == Signed(Strip(s))

(* Raw values of an execution_config entry, by Python type. *)
RInt(n) == [t |-> "int", n |-> n, f |-> NaN, s |-> <<>>]
RBigInt == [t |-> "bigint", n |-> 0, f |-> NaN, s |-> <<>>]
RFloat(f) == [t |-> "float", n |-> 0, f |-> f, s |-> <<>>]
RStr(s) == [t |-> "str", n |-> 0, f |-> NaN, s |-> s]
RBool(b) == [t |-> "bool", n |-> IF b THEN 1 ELSE 0, f |-> NaN, s |-> <<>>]
RNone == [t |-> "none", n |-> 0, f |-> NaN, s |-> <<>>]
RList == [t |-> "list", n |-> 0, f |-> NaN, s |-> <<>>]

\* float(value): an int too large for a double raises OverflowError, None
\* and containers raise TypeError, a string is parsed
PyFloat(v) ==
    CASE v.t = "int" -> Ok(Whole(v.n))
      [] v.t = "bool" -> Ok(Whole(v.n))
      [] v.t = "bigint" -> Raise("OverflowError")
      [] v.t = "float" -> Ok(v.f)
      [] v.t = "str" -> FloatOfStr(v.s)
      [] OTHER -> Raise("TypeError")

-----------------------------------------------------------------------------
(* STGCNRunner._validate_execution_params and its two range validators *)

StepsMin == 1
StepsMax == 10000
WeightMax == 100
ZBound == 10
LrMin == Fin(0, FracDen \div (1000 * 1000))

IntKeys == {"steps"}
WeightKeys == {"alpha", "beta", "gamma"}
ClampKeys == {"zmin", "zmax"}
ValidatedKeys == IntKeys \cup WeightKeys \cup {"lr"} \cup ClampKeys

\* _validate_int_range: int(float(value)), then the range; ValueError and
\* TypeError are turned into ValueError, any other exception leaves as it is
IntInRange(i, lo, hi) ==
    CASE i.exc \in {"ValueError", "TypeError"} -> Raise("ValueError")
      [] i.exc # "none" -> i
      [] lo <= i.val /\ i.val <= hi -> Ok(RInt(i.val))
      [] OTHER -> Raise("ValueError")

IntOfResult(f) == IF f.exc = "none" THEN IntOfFloat(f.val) ELSE f

ValidateIntRange(value, lo, hi) == IntInRange(IntOfResult(PyFloat(value)), lo, hi)

\* _validate_float_range: float(value), then the range
FloatInRangeNoLower(f, lo, hi) ==
    CASE f.exc \in {"ValueError", "TypeError"} -> Raise("ValueError")
      [] f.exc # "none" -> f
      [] FloatLeq(f.val, hi) -> Ok(RFloat(f.val))
      [] OTHER -> Raise("ValueError")
FloatInRange(f, lo, hi) ==
    CASE f.exc \in {"ValueError", "TypeError"} -> Raise("ValueError")
      [] f.exc # "none" -> f
      [] FloatLeq(lo, f.val) /\ FloatLeq(f.val, hi) -> Ok(RFloat(f.val))
      [] OTHER -> Raise("ValueError")

ValidateFloatRange(value, lo, hi) == FloatInRange(PyFloat(value), lo, hi)

\* param_validators[param](value)
FloatLo(param) ==
    CASE param \in WeightKeys -> Whole(0)
      [] param = "lr" -> LrMin
      [] OTHER -> Whole(-ZBound)
FloatHi(param) ==
    CASE param \in WeightKeys -> Whole(WeightMax)
      [] param = "lr" -> Whole(1)
      [] OTHER -> Whole(ZBound)

ParamValidator(param, value) ==
    IF param = "steps" THEN ValidateIntRange(value, StepsMin, StepsMax)
    ELSE ValidateFloatRange(value, FloatLo(param), FloatHi(param))

\* mappings as sequences of (key, value) items, keys distinct
Keys(items) == {items[j][1] : j \in 1..Len(items)}
Get(items, key) == items[CHOOSE j \in 1..Len(items) : items[j][1] = key][2]

(* The raw values a request may carry for each key. *)
Str400 == <<"4", "0", "0">>
StrAbc == <<"a", "b", "c">>
StrInf == <<"i", "n", "f">>
StrNan == <<"n", "a", "n">>
StrLr == <<"0", ".", "0", "5">>
StrNeg3 == <<" ", "-", "3">>
StrInject == <<"1", ";", "r", "m">>

RawChoices(key) ==
    CASE key = "steps" ->
           {RInt(1), RInt(StepsMax), RInt(50000), RFloat(Fin(0, FracDen \div 2)),
            RFloat(Fin(StepsMax, FracDen - 1)), RStr(Str400), RFloat(PosInf), RStr(StrInject)}
      [] key = "alpha" ->
           {RInt(0), RFloat(Whole(WeightMax)), RFloat(Fin(WeightMax, 1)), RStr(StrAbc),
            RFloat(Fin(-1, FracDen \div 2)), RBigInt}
      [] key = "beta" -> {RFloat(Fin(2, FracDen \div 2)), RNone, RStr(StrNan)}
      [] key = "gamma" -> {RFloat(Fin(0, FracDen \div 10)), RBool(TRUE), RList}
      [] key = "lr" ->
           {RFloat(LrMin), RFloat(Fin(0, LrMin.fp \div 2)), RInt(1), RFloat(Fin(1, 1)),
            RStr(StrLr)}
      [] key = "zmin" ->
           {RInt(-ZBound), RFloat(Fin(-ZBound - 1, FracDen \div 2)), RInt(5),
            RFloat(Fin(-1, FracDen - 500)), RStr(StrNeg3), RStr(StrInf)}
      [] key = "zmax" -> {RInt(ZBound), RInt(-5), RFloat(Whole(3)), RFloat(NegInf)}
      [] OTHER -> {RInt(5), RStr(StrInject)}

RequestKeys == ValidatedKeys \cup {"unknown_key", "out_path"}

\* the mappings of at most MaxEntries items
RECURSIVE Configs(_)
Configs(n) ==
    IF n = 0 THEN {<<>>}
    ELSE LET shorter == Configs(n - 1)
         IN  shorter \cup
             UNION {UNION {{Append(c, <<key, raw>>) : raw \in RawChoices(key)} :
                           key \in RequestKeys \ Keys(c)} :
                    c \in {d \in shorter : Len(d) = n - 1}}

-----------------------------------------------------------------------------
(* app.py's command line *)

DefAlpha == Whole(1)
DefBeta == Whole(2)
DefGamma == Fin(0, FracDen \div 10)
DefSteps == 800
DefLr == Fin(0, FracDen \div 20)
DefZmin == Whole(-3)
DefZmax == Whole(3)

\* argparse's default of a flag
Default(key) ==
    CASE key = "steps" -> RInt(DefSteps)
      [] key = "alpha" -> RFloat(DefAlpha)
      [] key = "beta" -> RFloat(DefBeta)
      [] key = "gamma" -> RFloat(DefGamma)
      [] key = "lr" -> RFloat(DefLr)
      [] key = "zmin" -> RFloat(DefZmin)
      [] OTHER -> RFloat(DefZmax)

\* str(value): the text of the number, of which the command line reads the
\* leading '-' and whether repr chose the exponent form (|x| < 1e-4, x # 0)
IsNegative(v) ==
    IF v.t = "int" THEN v.n < 0 ELSE v.f.k = "fin" /\ v.f.ip < 0
ExponentForm(v) ==
    /\ v.t = "float" /\ v.f.k = "fin"
    /\ \/ v.f.ip = 0 /\ 0 < v.f.fp /\ v.f.fp < FracDen \div 10000
       \/ v.f.ip = -1 /\ v.f.fp > FracDen - FracDen \div 10000
PyStr(v) == [neg |-> IsNegative(v), expform |-> ExponentForm(v), val |-> v]

\* argparse takes an argument that starts with '-' as the flag's value only
\* when it matches ^-\d+$|^-\d*\.\d+$; otherwise the flag has no value and
\* the parser exits with status 2
ArgparseTakes(token) == ~token.neg \/ ~token.expform

\* args.<key>: the flag's value read back by type=float / type=int, or the default
ArgValue(flags, key) ==
    IF key \in Keys(flags) THEN Get(flags, key).val ELSE Default(key)

ParsedArgs(flags) == [key \in ValidatedKeys |-> ArgValue(flags, key)]

-----------------------------------------------------------------------------
(* execute_with_data, lines 74-93 *)

InitRunner ==
    /\ OptIdle /\ ApiIdle /\ LoadIdle /\ ConcIdle /\ FnIdle
    /\ r_pc = "config"
    /\ execution_config \in Configs(MaxEntries)
    /\ r_i = 1 /\ safe_params = <<>> /\ v_exc = "none"
    /\ cmd_flags = <<>> /\ cfg = <<>>
    /\ ExecIdle

\* line 75: `if execution_config:` is false for an empty mapping
SkipValidation ==
    /\ r_pc = "config" /\ execution_config = <<>>
    /\ r_pc' = "command"
    /\ UNCHANGED <<execution_config, r_i, safe_params, v_exc, cmd_flags, cfg>>
    /\ UNCHANGED execVars
    /\ UNCHANGED <<optVars, apiVars, loadVars, concVars, fnVars>>

\* line 77, lines 204-215: the call of _validate_execution_params
EnterValidation ==
    /\ r_pc = "config" /\ execution_config # <<>>
    /\ r_pc' = "validating" /\ r_i' = 1 /\ safe_params' = <<>>
    /\ UNCHANGED <<execution_config, v_exc, cmd_flags, cfg>>
    /\ UNCHANGED execVars
    /\ UNCHANGED <<optVars, apiVars, loadVars, concVars, fnVars>>

\* lines 217-227: one item of the mapping
ValidateEntry ==
    /\ r_pc = "validating" /\ r_i <= Len(execution_config)
    /\ LET param == execution_config[r_i][1]
           value == execution_config[r_i][2]
           res == ParamValidator(param, value)
       IN  IF param \notin ValidatedKeys
           THEN /\ r_i' = r_i + 1
                /\ UNCHANGED <<r_pc, safe_params, v_exc>>
           ELSE CASE res.exc = "none" ->
                       /\ safe_params' = Append(safe_params, <<param, res.val>>)
                       /\ r_i' = r_i + 1
                       /\ UNCHANGED <<r_pc, v_exc>>
                  [] res.exc \in {"ValueError", "TypeError"} ->
                       /\ r_i' = r_i + 1
                       /\ UNCHANGED <<r_pc, safe_params, v_exc>>
                  [] OTHER ->
                       \* not caught at line 222 nor in the validator: it
                       \* reaches line 141 and the request returns an error
                       /\ v_exc' = res.exc
                       /\ r_pc' = "aborted"
                       /\ UNCHANGED <<r_i, safe_params>>
    /\ UNCHANGED <<execution_config, cmd_flags, cfg>>
    /\ UNCHANGED execVars
    /\ UNCHANGED <<optVars, apiVars, loadVars, concVars, fnVars>>

\* the flags of every item of execution_config, validated or not
BuildCommandRaw ==
    /\ r_pc = "validating" /\ r_i > Len(execution_config)
    /\ cmd_flags' = [j \in 1..Len(execution_config) |->
                        <<execution_config[j][1], PyStr(execution_config[j][2])>>]
    /\ r_pc' = "command"
    /\ UNCHANGED <<execution_config, r_i, safe_params, v_exc, cfg>>
    /\ UNCHANGED execVars
    /\ UNCHANGED <<optVars, apiVars, loadVars, concVars, fnVars>>

\* line 229, lines 78-79: the mapping is returned and its flags appended
BuildCommand ==
    /\ r_pc = "validating" /\ r_i > Len(execution_config)
    /\ cmd_flags' = [j \in 1..Len(safe_params) |->
                        <<safe_params[j][1], PyStr(safe_params[j][2])>>]
    /\ r_pc' = "command"
    /\ UNCHANGED <<execution_config, r_i, safe_params, v_exc, cfg>>
    /\ UNCHANGED execVars
    /\ UNCHANGED <<optVars, apiVars, loadVars, concVars, fnVars>>

\* lines 83-93 and app.py's main: the subprocess parses its command line and
\* calls run_optimize_from_csv, or exits with a usage error
Launch ==
    /\ r_pc = "command"
    /\ IF \A j \in 1..Len(cmd_flags) : ArgparseTakes(cmd_flags[j][2])
       THEN /\ cfg' = ParsedArgs(cmd_flags)
            /\ r_pc' = "running"
       ELSE /\ r_pc' = "failed"
            /\ UNCHANGED cfg
    /\ UNCHANGED <<execution_config, r_i, safe_params, v_exc, cmd_flags>>
    /\ UNCHANGED execVars
    /\ UNCHANGED <<optVars, apiVars, loadVars, concVars, fnVars>>

\* one argument of cmd_args: a fixed word, a temporary file's path, a flag
\* --<name>, or the text of a value
Word(name) == [kind |-> "word", name |-> name, text |-> PyStr(RInt(0))]
Path(name) == [kind |-> "path", name |-> name, text |-> PyStr(RInt(0))]
Flag(name) == [kind |-> "flag", name |-> name, text |-> PyStr(RInt(0))]
Text(str) == [kind |-> "text", name |-> "", text |-> str]

\* lines 68-72
CmdPrefix ==
    <<Word("sys.executable"), Word("app_path"),
      Flag("input_path"), Path("input"), Flag("out_path"), Path("output")>>

\* lines 78-79: cmd_args.extend([f'--{param}', str(value)]) for every pair
CmdExtend(flags) ==
    [n \in 1..(2 * Len(flags)) |->
        IF n % 2 = 1 THEN Flag(flags[(n + 1) \div 2][1])
        ELSE Text(flags[n \div 2][2])]

\* cmd_args as handed to subprocess.run, line 84
CmdArgs(flags) == CmdPrefix \o CmdExtend(flags)

NextRunner == SkipValidation \/ EnterValidation \/ ValidateEntry \/ BuildCommand \/ Launch

SpecRunner == InitRunner /\ [][NextRunner]_vars

-----------------------------------------------------------------------------
(* execute_with_data as a whole: the temporary files, the subprocess and    *)
(* the returned mapping, around the validation above.                       *)

\* the temporary files of one call
InputFile == "input"
OutputFile == "output"

\* input_data by what lines 37-57 make of it:
\*   record    a dict with the scalars KPI_X, KPI_Y, KPI_Z
\*   table     a list of records with the three KPI columns
\*   numeric3  no KPI column names, three numeric columns or more
\*   numeric2  no KPI column names, fewer than three numeric columns
\*   scalars   a dict of scalars without the KPI keys
InputKinds == {"record", "table", "numeric3", "numeric2", "scalars"}

\* lines 37-57: the exception raised while df is built, "none" otherwise
FrameOf(input) ==
    CASE input = "scalars" -> "ValueError"    \* pd.DataFrame: no index
      [] input = "numeric2" -> "ValueError"   \* line 57
      [] OTHER -> "none"

\* lines 141-148
ErrorReturn == [status |-> "error", predictions |-> 0, confidence |-> 0,
                processingTime |-> 0]

\* lines 133-140, rows being what the killed subprocess left in the output
\* file
TimeoutReturnPartial(rows) ==
    [status |-> "error", predictions |-> rows, confidence |-> 0,
     processingTime |-> 300000]
TimeoutReturn(rows) ==
    [status |-> "error", predictions |-> 0, confidence |-> 0,
     processingTime |-> 300000]

\* lines 100-129: one prediction per row of the output file; confidence in
\* hundredths
SuccessReturn(rows) ==
    [status |-> "success", predictions |-> rows, confidence |-> 95,
     processingTime |-> 1000]

\* lines 110-114
CleanUp(files) == files \ {InputFile, OutputFile}

\* how subprocess.run can end once app.py's main runs, and the rows of the
\* output file then: killed at the timeout, a nonzero return code, or return
\* code 0 with the output file written, left empty or removed
ProcessEnds ==
    [end : {"timeout"}, rows : 0..MaxOutRows]
    \cup [end : {"nonzero"}, rows : {0}]
    \cup [end : {"zero"}, rows : 0..MaxOutRows]
    \cup [end : {"zero_empty", "zero_removed"}, rows : {0}]

InitExec ==
    /\ OptIdle /\ ApiIdle /\ LoadIdle /\ ConcIdle /\ FnIdle
    /\ r_pc = "input"
    /\ execution_config \in Configs(MaxEntries)
    /\ r_i = 1 /\ safe_params = <<>> /\ v_exc = "none"
    /\ cmd_flags = <<>> /\ cfg = <<>>
    /\ e_input \in InputKinds
    /\ e_files = {} /\ e_proc = NoProcess /\ e_ret = NoReturn

\* lines 35-65: both temporary files are created with delete=False; an
\* exception while df is built leaves the first `with` and reaches line 141
PrepareFiles ==
    /\ r_pc = "input"
    /\ IF FrameOf(e_input) = "none"
       THEN /\ e_files' = {InputFile, OutputFile}
            /\ r_pc' = "config"
            /\ UNCHANGED e_ret
       ELSE /\ e_files' = {InputFile}
            /\ r_pc' = "returned"
            /\ e_ret' = ErrorReturn
    /\ UNCHANGED <<execution_config, r_i, safe_params, v_exc, cmd_flags, cfg>>
    /\ UNCHANGED <<e_input, e_proc>>
    /\ UNCHANGED <<optVars, apiVars, loadVars, concVars, fnVars>>

\* line 141, for an exception that left _validate_execution_params
ReturnAborted ==
    /\ r_pc = "aborted" /\ e_input # "none" /\ e_ret = NoReturn
    /\ e_ret' = ErrorReturn
    /\ UNCHANGED <<r_pc, execution_config, r_i, safe_params, v_exc, cmd_flags, cfg>>
    /\ UNCHANGED <<e_input, e_files, e_proc>>
    /\ UNCHANGED <<optVars, apiVars, loadVars, concVars, fnVars>>

\* lines 91-93 and 141, for a subprocess argparse has ended with status 2
ReturnUsageError ==
    /\ r_pc = "failed" /\ e_input # "none" /\ e_ret = NoReturn
    /\ e_proc' = [end |-> "nonzero", rows |-> 0]
    /\ e_ret' = ErrorReturn
    /\ UNCHANGED <<r_pc, execution_config, r_i, safe_params, v_exc, cmd_flags, cfg>>
    /\ UNCHANGED <<e_input, e_files>>
    /\ UNCHANGED <<optVars, apiVars, loadVars, concVars, fnVars>>

\* lines 83-148, for a subprocess that runs the optimizer
ReturnFromRun ==
    /\ r_pc = "running" /\ e_input # "none" /\ e_ret = NoReturn
    /\ \E end \in ProcessEnds :
          /\ e_proc' = end
          /\ CASE end.end = "timeout" ->
                    \* line 133
                    /\ e_ret' = TimeoutReturn(end.rows)
                    /\ UNCHANGED e_files
               [] end.end = "nonzero" ->
                    \* line 93
                    /\ e_ret' = ErrorReturn
                    /\ UNCHANGED e_files
               [] end.end = "zero" ->
                    \* lines 97-129
                    /\ e_ret' = SuccessReturn(end.rows)
                    /\ e_files' = CleanUp(e_files)
               [] end.end = "zero_empty" ->
                    \* line 97: pd.read_csv raises EmptyDataError
                    /\ e_ret' = ErrorReturn
                    /\ UNCHANGED e_files
               [] OTHER ->
                    \* line 131
                    /\ e_ret' = ErrorReturn
                    /\ e_files' = e_files \ {OutputFile}
    /\ UNCHANGED <<r_pc, execution_config, r_i, safe_params, v_exc, cmd_flags, cfg>>
    /\ UNCHANGED e_input
    /\ UNCHANGED <<optVars, apiVars, loadVars, concVars, fnVars>>

NextExec ==
    \/ PrepareFiles
    \/ SkipValidation \/ EnterValidation \/ ValidateEntry \/ BuildCommand \/ Launch
    \/ ReturnAborted \/ ReturnUsageError \/ ReturnFromRun

SpecExec == InitExec /\ [][NextExec]_vars

-----------------------------------------------------------------------------
(* Server helpers and endpoints, on shapes.  A shape is the tuple of an     *)
(* array's dimensions; an index list is the tuple of its indices.           *)

ParamChannels == 8
KpiChannels == 3
SchemaRank == 3
InChannels == 3
NumNodes == 3
HidChannels == 64

\* ensure_batched(arr, last_dim)
EnsureBatchedAnyLast(shape, last_dim) ==
    CASE Len(shape) = 2 /\ shape[2] = last_dim -> Ok(<<1>> \o shape)
      [] Len(shape) = 3 -> Ok(shape)
      [] OTHER -> Raise("ValueError")
ensure_batched(shape, last_dim) ==
    CASE Len(shape) = 2 /\ shape[2] = last_dim -> Ok(<<1>> \o shape)
      [] Len(shape) = 3 /\ shape[3] = last_dim -> Ok(shape)
      [] OTHER -> Raise("ValueError")

\* apply_indices(arr, indices): arr[..., idx]; an index outside the last
\* axis raises IndexError
apply_indices(shape, indices) ==
    IF indices = NoArray THEN Ok(shape)
    ELSE IF \E j \in 1..Len(indices.v) :
               \/ indices.v[j] >= shape[Len(shape)]
               \/ indices.v[j] < -shape[Len(shape)]
         THEN Raise("IndexError")
         ELSE Ok(SubSeq(shape, 1, Len(shape) - 1) \o <<Len(indices.v)>>)

RECURSIVE Size(_)
Size(shape) == IF shape = <<>> THEN 1 ELSE shape[1] * Size(Tail(shape))

\* arr.reshape(-1, c): the size must be a multiple of c
ReshapeRowsOk(shape, c) == Size(shape) % c = 0

\* two dimensions broadcast when they are equal or one of them is 1
Broadcastable(a, b) == a = b \/ a = 1 \/ b = 1

\* the shape of np.transpose(p, (0, 2, 1))
Transposed(shape) == <<shape[1], shape[3], shape[2]>>

\* flat8_to_stgcn_x, lines 113-122: [B,8,T] to [B,3,T,3]
StgcnInput(p8) == <<p8[1], InChannels, p8[3], NumNodes>>

\* STGCN_MODEL(x4, ADJ), line 89: [B,C,T,V] to [B,HID_CHANNELS,T,V]
\* (KERNEL_SIZE is odd, so the temporal filters keep T)
StgcnOut(x4) == <<x4[1], HidChannels, x4[3], x4[4]>>

\* .mean(dim=-1, keepdim=True): the last axis of [B,C,T,V] is the node axis
MeanOverTime(sh) == [sh EXCEPT ![3] = 1]
MeanKeepdim(sh) == [sh EXCEPT ![Len(sh)] = 1]

\* KPI_HEAD, a 1x1 Conv2d to 3 channels
KpiHeadOut(sh) == [sh EXCEPT ![2] = KpiChannels]

\* .squeeze(-1)
SqueezeLast(sh) == IF sh[Len(sh)] = 1 THEN SubSeq(sh, 1, Len(sh) - 1) ELSE sh

\* pred of optimize_params_api, lines 385-387, for opt_params of shape p8
PredOptimize(p8) == KpiHeadOut(MeanKeepdim(StgcnOut(StgcnInput(p8))))

\* pred of predict_kpi, lines 353-356
PredPredict(p8) == SqueezeLast(KpiHeadOut(MeanKeepdim(StgcnOut(StgcnInput(p8)))))

\* line 371: target = to_t(np.transpose(yz, (0, 2, 1)))[..., None]
TargetShape(tgt) == Transposed(tgt) \o <<1>>

\* two shapes of one rank broadcast
ShapesBroadcast(a, b) == \A i \in DOMAIN a : Broadcastable(a[i], b[i])

\* mse(pred, target), line 388, for xz0 of shape dec and tgt as reshaped
MseShapesOk(dec, tgt) ==
    ShapesBroadcast(PredOptimize(Transposed(dec)), TargetShape(tgt))

\* the outcome of a call: [exc, runs, dec, out, pred]
Outcome(exc, runs, dec, outShape) ==
    [exc |-> exc, runs |-> runs, dec |-> dec, out |-> outShape, pred |-> NoArray]

\* the outcome of a call that has computed pred
WithPred(o, pred) == [o EXCEPT !.pred = Some(pred)]

PredictAfterIndices(ix) ==
    CASE ix.exc # "none" -> Outcome(ix.exc, 0, NoArray, NoArray)
      \* line 351: arr.reshape(-1, 8)
      [] ~ReshapeRowsOk(ix.val, ParamChannels) -> Outcome("ValueError", 0, NoArray, NoArray)
      \* line 353: flat8_to_stgcn_x asserts 8 channels
      [] ix.val[3] # ParamChannels -> Outcome("AssertionError", 0, NoArray, NoArray)
      \* lines 354-362: one forward evaluation, [B,T,3] returned
      [] OTHER -> WithPred(Outcome("none", 1, NoArray,
                                   Some(Transposed(PredPredict(Transposed(ix.val))))),
                           PredPredict(Transposed(ix.val)))

PredictAfterBatched(eb, indices) ==
    IF eb.exc # "none" THEN Outcome(eb.exc, 0, NoArray, NoArray)
    ELSE PredictAfterIndices(apply_indices(eb.val, indices))

predict_kpi(params, indices) ==
    PredictAfterBatched(ensure_batched(params, ParamChannels), indices)

\* line 379: np.transpose(xz0, (0, 2, 1)), [B',T',8] to [B',8,T']
DecisionShape(xz) == <<xz[1], xz[3], xz[2]>>

\* optimize_params_api from line 379 on: tgt is the target's shape after
\* lines 366-372, dec the shape [B',T',8] of xz0
OptimizeReturn(tgt, dec, nsteps, raw) ==
    CASE raw /\ dec[1] * dec[2] # tgt[1] * tgt[2] ->
           \* line 402: reshape(B, T, 8)
           Outcome("ValueError", RangeLen(nsteps), Some(DecisionShape(dec)), NoArray)
      [] raw -> Outcome("none", RangeLen(nsteps), Some(DecisionShape(dec)),
                        Some(<<tgt[1], tgt[2], ParamChannels>>))
      [] OTHER -> Outcome("none", RangeLen(nsteps), Some(DecisionShape(dec)), Some(dec))

OptimizeLoop(tgt, dec, nsteps, raw) ==
    CASE nsteps > 0 /\ ~MseShapesOk(dec, tgt) ->
           \* line 388, first iteration: the shapes do not broadcast
           WithPred(Outcome("RuntimeError", 1, Some(DecisionShape(dec)), NoArray),
                    PredOptimize(DecisionShape(dec)))
      [] nsteps > 0 -> WithPred(OptimizeReturn(tgt, dec, nsteps, raw),
                                PredOptimize(DecisionShape(dec)))
      [] OTHER -> OptimizeReturn(tgt, dec, nsteps, raw)

OptimizeAfterBaseline(tgt, eb, nsteps, raw) ==
    IF eb.exc # "none" THEN Outcome(eb.exc, 0, NoArray, NoArray)
    ELSE OptimizeLoop(tgt, eb.val, nsteps, raw)

OptimizeAfterIndices(ix, baseline, nsteps, raw) ==
    CASE ix.exc # "none" -> Outcome(ix.exc, 0, NoArray, NoArray)
      \* line 370: tgt.reshape(-1, 3)
      [] ~ReshapeRowsOk(ix.val, KpiChannels) -> Outcome("ValueError", 0, NoArray, NoArray)
      [] baseline = NoArray ->
           OptimizeLoop(ix.val, <<ix.val[1], ix.val[2], ParamChannels>>, nsteps, raw)
      [] OTHER ->
           OptimizeAfterBaseline(ix.val, ensure_batched(baseline.v, ParamChannels),
                                 nsteps, raw)

OptimizeAfterBatched(eb, indices, baseline, nsteps, raw) ==
    IF eb.exc # "none" THEN Outcome(eb.exc, 0, NoArray, NoArray)
    ELSE OptimizeAfterIndices(apply_indices(eb.val, indices), baseline, nsteps, raw)

optimize_params_api(target, indices, baseline, nsteps, raw) ==
    OptimizeAfterBatched(ensure_batched(target, KpiChannels), indices, baseline,
                         nsteps, raw)

(* Inputs *)
DimChoices == (1..MaxDim) \cup {KpiChannels, ParamChannels}

RECURSIVE ShapesOfRank(_)
ShapesOfRank(n) ==
    IF n = 0 THEN {<<>>}
    ELSE UNION {{Append(sh, d) : d \in DimChoices} : sh \in ShapesOfRank(n - 1)}

ShapesUpTo(n) == UNION {ShapesOfRank(r) : r \in 0..n}

\* what the request schemas let through: nested lists of depth 2 or 3, and
\* the empty list
RequestShapes ==
    {<<0>>, <<1, 0>>} \cup UNION {ShapesOfRank(r) : r \in 2..SchemaRank}

IndexChoices == {NoArray, Some(<<2, 0, 1>>), Some(<<0>>),
                 Some(<<0, 1, 2, 3, 4, 5, 6, 7>>), Some(<<8>>)}

InitApi ==
    /\ OptIdle /\ RunIdle /\ LoadIdle /\ ConcIdle /\ FnIdle
    /\ a_pc = "called"
    /\ a_fn \in {"ensure_batched", "predict_kpi", "optimize_params_api"}
    /\ a_arr \in IF a_fn = "ensure_batched" THEN ShapesUpTo(MaxRank) ELSE RequestShapes
    /\ a_last \in IF a_fn = "ensure_batched" THEN {KpiChannels, ParamChannels} ELSE {0}
    /\ a_idx \in IF a_fn = "ensure_batched" THEN {NoArray} ELSE IndexChoices
    /\ a_base \in IF a_fn = "optimize_params_api"
                  THEN {NoArray} \cup {Some(sh) : sh \in RequestShapes}
                  ELSE {NoArray}
    /\ a_steps \in IF a_fn = "optimize_params_api" THEN 0..MaxApiSteps ELSE {0}
    /\ a_raw \in IF a_fn = "ensure_batched" THEN {FALSE} ELSE BOOLEAN
    /\ a_dec = NoArray /\ a_runs = 0 /\ a_exc = "none" /\ a_out = NoArray
    /\ a_pred = NoArray

Finish(res) ==
    /\ a_exc' = res.exc
    /\ a_runs' = res.runs
    /\ a_dec' = res.dec
    /\ a_out' = res.out
    /\ a_pred' = res.pred
    /\ a_pc' = IF res.exc = "none" THEN "returned" ELSE "raised"

\* lines 327-332
CallEnsureBatched ==
    /\ a_pc = "called" /\ a_fn = "ensure_batched"
    /\ LET eb == ensure_batched(a_arr, a_last)
       IN  Finish(Outcome(eb.exc, 0, NoArray,
                          IF eb.exc = "none" THEN Some(eb.val) ELSE NoArray))
    /\ UNCHANGED <<a_fn, a_arr, a_last, a_idx, a_base, a_steps, a_raw>>
    /\ UNCHANGED <<optVars, runVars, loadVars, concVars, fnVars>>

\* lines 345-362
CallPredictKpi ==
    /\ a_pc = "called" /\ a_fn = "predict_kpi"
    /\ Finish(predict_kpi(a_arr, a_idx))
    /\ UNCHANGED <<a_fn, a_arr, a_last, a_idx, a_base, a_steps, a_raw>>
    /\ UNCHANGED <<optVars, runVars, loadVars, concVars, fnVars>>

\* lines 364-405
CallOptimizeParams ==
    /\ a_pc = "called" /\ a_fn = "optimize_params_api"
    /\ Finish(optimize_params_api(a_arr, a_idx, a_base, a_steps, a_raw))
    /\ UNCHANGED <<a_fn, a_arr, a_last, a_idx, a_base, a_steps, a_raw>>
    /\ UNCHANGED <<optVars, runVars, loadVars, concVars, fnVars>>

NextApi == CallEnsureBatched \/ CallPredictKpi \/ CallOptimizeParams

SpecApi == InitApi /\ [][NextApi]_vars

-----------------------------------------------------------------------------
(* load_artifacts *)

\* The object torch.load returns, by what load_artifacts asks of it:
\*   kind      "mapping" (a dict), "list" (`in` compares elements, a string
\*             subscript raises), "module" (a pickled model object: `in`
\*             raises), "unreadable" (torch.load raises)
\*   keys      the keys of the mapping / the elements of the list
\*   stgcn_ok  load_state_dict(state["stgcn"], strict=True) succeeds
\*   head_ok   load_state_dict(state["kpi_head"], strict=True) succeeds
\*   sd        state["state_dict"]: "mapping" whose tensors fit, "mismatch"
\*             (a mapping whose tensors have the wrong size), "other" (no
\*             .items)
\*   names     the names in state["state_dict"], each a tuple of characters
TopKeys == {"stgcn", "kpi_head", "state_dict", "epoch"}

\* "stgcn.", "kpi_head." and "module."
StgcnPrefix == <<"s", "t", "g", "c", "n", ".">>
HeadPrefix == <<"k", "p", "i", "_", "h", "e", "a", "d", ".">>
ModulePrefix == <<"m", "o", "d", "u", "l", "e", ".">>

\* parameter names: "final.bias" of STGCN, "weight" and "bias" of the Conv2d
FinalBias == <<"f", "i", "n", "a", "l", ".", "b", "i", "a", "s">>
Weight == <<"w", "e", "i", "g", "h", "t">>
Bias == <<"b", "i", "a", "s">>
StgcnParams == {FinalBias}
HeadParams == {Weight, Bias}

\* names a checkpoint's flat state_dict can hold: "stgcn.final.bias",
\* "kpi_head.weight", "kpi_head.bias", "module.stgcn.final.bias" (saved from
\* a DataParallel wrapper) and "epoch"
SdNames ==
    {StgcnPrefix \o FinalBias, HeadPrefix \o Weight, HeadPrefix \o Bias,
     ModulePrefix \o StgcnPrefix \o FinalBias, <<"e", "p", "o", "c", "h">>}

\* k.startswith(p)
StartsWith(k, p) == Len(k) >= Len(p) /\ SubSeq(k, 1, Len(p)) = p

\* k.replace(p, ""): every occurrence of p, left to right, removed
RECURSIVE Replace(_, _)
Replace(k, p) ==
    IF k = <<>> THEN k
    ELSE IF StartsWith(k, p) THEN Replace(SubSeq(k, Len(p) + 1, Len(k)), p)
    ELSE <<Head(k)>> \o Replace(Tail(k), p)

\* lines 142-144: the dict handed to stgcn.load_state_dict
StgcnGiven(names) ==
    {<<Replace(k, ModulePrefix), k>> :
        k \in {n \in names : StartsWith(n, StgcnPrefix)}}

\* lines 145-147: the dict handed to kpi_head.load_state_dict
HeadGiven(names) ==
    {<<Replace(Replace(k, ModulePrefix), HeadPrefix), k>> :
        k \in {n \in names : StartsWith(n, HeadPrefix)}}

\* load_state_dict(given, strict=False): names that are no parameter of the
\* module are ignored
Assigned(given, params) == {e \in given : e[1] \in params}

Containers ==
    [kind : {"mapping", "list"}, keys : SUBSET TopKeys,
     stgcn_ok : BOOLEAN, head_ok : BOOLEAN,
     sd : {"mapping", "mismatch", "other"}, names : SUBSET SdNames]

States ==
    Containers \cup {[NoState EXCEPT !.kind = k] : k \in {"module", "unreadable"}}

ScalerFiles == {"ok", "missing", "invalid"}

\* what load_artifacts ends with
Loaded(stgcn, head) ==
    [exc |-> "none", stgcn |-> stgcn, head |-> head, sg |-> {}, kh |-> {}]
LoadedFrom(head, sg, kh) ==
    [exc |-> "none", stgcn |-> "filtered", head |-> head, sg |-> sg, kh |-> kh]
LoadRaise(e) ==
    [exc |-> e, stgcn |-> "none", head |-> "none", sg |-> {}, kh |-> {}]

\* line 134: `"stgcn" in state`
HasDirectLayout(st) == "stgcn" \in st.keys

\* lines 135-139
LoadDirect(st) ==
    CASE st.kind = "list" -> LoadRaise("TypeError")
      [] ~st.stgcn_ok -> LoadRaise("RuntimeError: load_state_dict")
      [] "kpi_head" \in st.keys /\ ~st.head_ok ->
           LoadRaise("RuntimeError: load_state_dict")
      [] "kpi_head" \in st.keys -> Loaded("strict", "strict")
      [] OTHER -> Loaded("strict", "random")

\* lines 141-149
LoadGeneric(st) ==
    CASE st.kind = "list" -> LoadRaise("TypeError")
      [] st.sd = "other" -> LoadRaise("AttributeError")
      [] /\ st.sd = "mismatch"
         /\ Assigned(StgcnGiven(st.names), StgcnParams)
              \cup Assigned(HeadGiven(st.names), HeadParams) # {} ->
           \* a tensor of the wrong size for a parameter it is copied to
           LoadRaise("RuntimeError: load_state_dict")
      [] \E k \in st.names : StartsWith(k, HeadPrefix) ->
           LoadedFrom("filtered", StgcnGiven(st.names), HeadGiven(st.names))
      [] OTHER -> LoadedFrom("random", StgcnGiven(st.names), {})

\* lines 133-151
LoadModel(st) ==
    CASE st.kind = "unreadable" -> LoadRaise("UnpicklingError")
      [] st.kind = "module" -> LoadRaise("TypeError")
      [] HasDirectLayout(st) -> LoadDirect(st)
      [] "state_dict" \in st.keys -> LoadGeneric(st)
      [] OTHER -> LoadRaise("RuntimeError: Unsupported checkpoint format")

\* lines 153-155
LoadScaler(m, file) ==
    CASE m.exc # "none" -> m
      [] file = "missing" -> LoadRaise("FileNotFoundError")
      [] file = "invalid" -> LoadRaise("JSONDecodeError")
      [] OTHER -> m

InitLoad ==
    /\ OptIdle /\ RunIdle /\ ApiIdle /\ ConcIdle /\ FnIdle
    /\ l_pc = "called"
    /\ state \in States
    /\ scaler_file \in ScalerFiles
    /\ l_exc = "none" /\ l_stgcn = "none" /\ l_head = "none" /\ l_scaler = FALSE
    /\ l_sg_given = {} /\ l_kh_given = {}
    /\ l_sg_assigned = {} /\ l_kh_assigned = {}
    /\ ModelIdle

load_artifacts ==
    /\ l_pc = "called"
    /\ LET res == LoadScaler(LoadModel(state), scaler_file)
       IN /\ l_pc' = IF res.exc = "none" THEN "returned" ELSE "raised"
          /\ l_exc' = res.exc
          /\ l_stgcn' = res.stgcn
          /\ l_head' = res.head
          /\ l_scaler' = (res.exc = "none")
          /\ l_sg_given' = res.sg
          /\ l_kh_given' = res.kh
          /\ l_sg_assigned' = Assigned(res.sg, StgcnParams)
          /\ l_kh_assigned' = Assigned(res.kh, HeadParams)
    /\ UNCHANGED <<state, scaler_file, modelVars>>
    /\ UNCHANGED <<optVars, runVars, apiVars, concVars, fnVars>>

NextLoad == load_artifacts

SpecLoad == InitLoad /\ [][NextLoad]_vars

-----------------------------------------------------------------------------
(* Concurrent server calls on the shared model *)

\* The endpoints are plain `def` handlers: the server runs each request on a
\* worker thread, so calls interleave between any two statements.  One call
\* is cut at its forward pass, loss.backward(), optimizer.step(), clamp_ and
\* its return.
Calls == 1..NCalls

\* x <> 0 ? x / |x| : 0
Sgn(x) == IF x > 0 THEN 1 ELSE IF x < 0 THEN -1 ELSE 0

\* KPI_HEAD(STGCN_MODEL(x4, ADJ).mean(...)) with weights w
Forward(w, adj, x) == w * adj * x

\* d(loss_dev)/d(opt_params): present only with a baseline
DevGrad(req, x) == IF req.has_base THEN x - req.x0 ELSE 0

\* opt_params.grad after loss.backward()
GradX(req, w, adj, pred, x) == (pred - req.tgt) * w * adj + DevGrad(req, x)

\* what loss.backward() adds to the .grad of the weights, which require grad
GradW(req, adj, pred, x) == (pred - req.tgt) * adj * x

\* the optimizer whose state call c uses: the one it built itself, line 380
OptimizerOfShared(c) == 1
OptimizerOf(c) == c

\* optimizer.step() on the weights: they are not among its parameters,
\* optim.Adam([opt_params]), line 380
WeightsAfterStepAll(w, wgrad) == w - Sgn(wgrad)
WeightsAfterStep(w, wgrad) == w

\* Adam: the moment estimate takes the gradient in, the parameter moves
\* against it
MomentAfter(m, g) == m + g
ParamAfter(x, m) == x - Sgn(m)

\* the requests
ConcRequests ==
    [kind : {"predict_kpi"}, tgt : {0}, has_base : {FALSE}, x0 : {0, 1},
     steps : {0}]
    \cup [kind : {"optimize_params_api"}, tgt : {-1, 1}, has_base : BOOLEAN,
          x0 : {0, 1}, steps : 0..MaxConcSteps]

\* the decision array a call starts from, lines 373-379
StartOf(req) == IF req.has_base THEN req.x0 ELSE 0

InitConc ==
    /\ OptIdle /\ RunIdle /\ ApiIdle /\ LoadIdle /\ FnIdle
    /\ c_req \in [Calls -> ConcRequests]
    /\ c_pc = [c \in Calls |-> "start"]
    /\ c_k = [c \in Calls |-> 0]
    /\ c_x = [c \in Calls |-> 0]
    /\ c_m = [c \in Calls |-> 0]
    /\ c_t = [c \in Calls |-> 0]
    /\ c_pred = [c \in Calls |-> 0]
    /\ c_g = [c \in Calls |-> 0]
    /\ c_out = [c \in Calls |-> NoArray]
    /\ g_weights \in {1, 2}
    /\ g_adj = 1
    /\ g_wgrad = 0
    /\ g_writers = {}

\* predict_kpi: one forward pass under torch.no_grad()
ConcPredict(c) ==
    /\ c_pc[c] = "start" /\ c_req[c].kind = "predict_kpi"
    /\ c_pred' = [c_pred EXCEPT ![c] = Forward(g_weights, g_adj, c_req[c].x0)]
    /\ c_out' = [c_out EXCEPT ![c] = Some(Forward(g_weights, g_adj, c_req[c].x0))]
    /\ c_pc' = [c_pc EXCEPT ![c] = "done"]
    /\ UNCHANGED <<c_req, c_k, c_x, c_m, c_t, c_g,
                   g_weights, g_adj, g_wgrad, g_writers>>
    /\ UNCHANGED <<optVars, runVars, apiVars, loadVars, fnVars>>

\* optimize_params_api, lines 366-381: opt_params and a new Adam
ConcBegin(c) ==
    /\ c_pc[c] = "start" /\ c_req[c].kind = "optimize_params_api"
    /\ c_x' = [c_x EXCEPT ![c] = StartOf(c_req[c])]
    /\ c_m' = [c_m EXCEPT ![OptimizerOf(c)] = 0]
    /\ c_t' = [c_t EXCEPT ![OptimizerOf(c)] = 0]
    /\ c_pc' = [c_pc EXCEPT ![c] =
                  IF RangeLen(c_req[c].steps) > 0 THEN "forward" ELSE "final"]
    /\ UNCHANGED <<c_req, c_k, c_pred, c_g, c_out,
                   g_weights, g_adj, g_wgrad, g_writers>>
    /\ UNCHANGED <<optVars, runVars, apiVars, loadVars, fnVars>>

\* lines 384-388: the forward pass reads the weights and ADJ; GraphConv
\* builds adj + eye as a new tensor
ConcForward(c) ==
    /\ c_pc[c] = "forward"
    /\ c_pred' = [c_pred EXCEPT ![c] = Forward(g_weights, g_adj, c_x[c])]
    /\ c_pc' = [c_pc EXCEPT ![c] = "backward"]
    /\ UNCHANGED <<c_req, c_k, c_x, c_m, c_t, c_g, c_out,
                   g_weights, g_adj, g_wgrad, g_writers>>
    /\ UNCHANGED <<optVars, runVars, apiVars, loadVars, fnVars>>

\* line 396, loss.backward(): the gradient of opt_params, and the gradient
\* of every weight added to that weight's .grad
ConcBackward(c) ==
    /\ c_pc[c] = "backward"
    /\ c_g' = [c_g EXCEPT ![c] =
                  GradX(c_req[c], g_weights, g_adj, c_pred[c], c_x[c])]
    /\ g_wgrad' = g_wgrad + GradW(c_req[c], g_adj, c_pred[c], c_x[c])
    /\ g_writers' = g_writers \cup {c}
    /\ c_pc' = [c_pc EXCEPT ![c] = "step"]
    /\ UNCHANGED <<c_req, c_k, c_x, c_m, c_t, c_pred, c_out, g_weights, g_adj>>
    /\ UNCHANGED <<optVars, runVars, apiVars, loadVars, fnVars>>

\* line 396, optimizer.step()
ConcAdamStep(c) ==
    /\ c_pc[c] = "step"
    /\ c_m' = [c_m EXCEPT ![OptimizerOf(c)] = MomentAfter(@, c_g[c])]
    /\ c_t' = [c_t EXCEPT ![OptimizerOf(c)] = @ + 1]
    /\ c_x' = [c_x EXCEPT ![c] =
                  ParamAfter(@, MomentAfter(c_m[OptimizerOf(c)], c_g[c]))]
    /\ g_weights' = WeightsAfterStep(g_weights, g_wgrad)
    /\ c_pc' = [c_pc EXCEPT ![c] = "clamp"]
    /\ UNCHANGED <<c_req, c_k, c_pred, c_g, c_out, g_adj, g_wgrad, g_writers>>
    /\ UNCHANGED <<optVars, runVars, apiVars, loadVars, fnVars>>

\* lines 397-398, and the loop's next round
ConcClamp(c) ==
    /\ c_pc[c] = "clamp"
    /\ c_x' = [c_x EXCEPT ![c] = clamp(@, -MaxClamp, MaxClamp)]
    /\ c_k' = [c_k EXCEPT ![c] = @ + 1]
    /\ c_pc' = [c_pc EXCEPT ![c] =
                  IF c_k[c] + 1 < RangeLen(c_req[c].steps) THEN "forward"
                  ELSE "final"]
    /\ UNCHANGED <<c_req, c_m, c_t, c_pred, c_g, c_out,
                   g_weights, g_adj, g_wgrad, g_writers>>
    /\ UNCHANGED <<optVars, runVars, apiVars, loadVars, fnVars>>

\* lines 399-405
ConcFinalize(c) ==
    /\ c_pc[c] = "final"
    /\ c_out' = [c_out EXCEPT ![c] = Some(c_x[c])]
    /\ c_pc' = [c_pc EXCEPT ![c] = "done"]
    /\ UNCHANGED <<c_req, c_k, c_x, c_m, c_t, c_pred, c_g,
                   g_weights, g_adj, g_wgrad, g_writers>>
    /\ UNCHANGED <<optVars, runVars, apiVars, loadVars, fnVars>>

NextConc ==
    \E c \in Calls :
        \/ ConcPredict(c) \/ ConcBegin(c) \/ ConcForward(c) \/ ConcBackward(c)
        \/ ConcAdamStep(c) \/ ConcClamp(c) \/ ConcFinalize(c)

SpecConc == InitConc /\ [][NextConc]_vars

-----------------------------------------------------------------------------
(* One optimize call, statement by statement.  The arrays have one element, *)
(* on the integer grid; the stats of the parameter scaler are integers.     *)

\* the requests: baseline (normalized), steps, clamp bounds, return_raw,
\* target, with the scaler stats of the channel and the weight
StepRequests ==
    [has_base : {FALSE}, x0 : {0}, steps : -1..MaxLoopSteps,
     zmin : -MaxClamp..MaxClamp, zmax : -MaxClamp..MaxClamp,
     raw : BOOLEAN, tgt : {-1, 1}, mean : {0, 1}, std : {0, 1, 2}, w : {1, 2}]
    \cup
    [has_base : {TRUE}, x0 : {-MaxBase, 0, MaxBase}, steps : -1..MaxLoopSteps,
     zmin : -MaxClamp..MaxClamp, zmax : -MaxClamp..MaxClamp,
     raw : BOOLEAN, tgt : {-1, 1}, mean : {0, 1}, std : {0, 1, 2}, w : {1, 2}]

\* to_t(np.transpose(xz0, (0, 2, 1))).clone(): torch.from_numpy and .to share
\* the memory of xz0, .clone() copies it.  What xz0 holds after opt_params
\* has been written in place
SharedWithDecision(xz0v, x) == x
AfterWrite(xz0v, x) == xz0v

\* the statement that follows optimizer.step(), lines 396-398
AfterUpdateNoClamp(k, n) == IF k + 1 < n THEN "forward" ELSE "final"
AfterUpdate(k, n) == "clamp"

\* the statement that follows clamp_, lines 383 and 399
AfterClamp(k, n) == IF k + 1 < n THEN "forward" ELSE "final"

\* d(loss)/d(opt_params): the fit term through the model, the deviation
\* term when a baseline was supplied
LoopGrad(req, pred, x, base) ==
    (pred - req.tgt) * req.w + (IF req.has_base THEN x - base ELSE 0)

\* z_inv on one element, line 111
Denormalized(z, mean, std) == z * std + mean

\* what a statement of the call leaves alone
StepFrame ==
    /\ UNCHANGED <<o_pc, T, has_base, base_in, steps, zmin, zmax, beta, xz0,
                   opt_params, step, iters, loss_dev, out>>
    /\ UNCHANGED <<runVars, apiVars, loadVars, concVars, fnVars>>

InitStep ==
    /\ CallIdle
    /\ RunIdle /\ ApiIdle /\ LoadIdle /\ ConcIdle /\ FnIdle
    /\ p_pc = "call" /\ p_req \in StepRequests
    /\ p_xz0 = 0 /\ p_base = 0 /\ p_x = 0 /\ p_m = 0 /\ p_k = 0
    /\ p_pred = 0 /\ p_dev = 0 /\ p_g = 0 /\ p_denorm = 0 /\ p_out = NoArray

\* lines 373-382: Initialized
StepInitialize ==
    /\ p_pc = "call"
    /\ p_xz0' = (IF p_req.has_base THEN p_req.x0 ELSE 0)
    /\ p_x' = p_xz0'
    /\ p_m' = 0
    /\ p_pc' = IF RangeLen(p_req.steps) > 0 THEN "forward" ELSE "final"
    /\ UNCHANGED <<p_req, p_base, p_k, p_pred, p_dev, p_g, p_denorm, p_out>>
    /\ StepFrame

\* lines 384-387: forward evaluation
StepForward ==
    /\ p_pc = "forward"
    /\ p_pred' = Forward(p_req.w, 1, p_x)
    /\ p_pc' = "loss"
    /\ UNCHANGED <<p_req, p_xz0, p_base, p_x, p_m, p_k, p_dev, p_g, p_denorm, p_out>>
    /\ StepFrame

\* lines 388-395: the losses; base is made of xz0 again
StepLoss ==
    /\ p_pc = "loss"
    /\ p_base' = (IF p_req.has_base THEN p_xz0 ELSE p_base)
    /\ p_dev' = (IF p_req.has_base THEN (p_x - p_xz0) * (p_x - p_xz0) ELSE 0)
    /\ p_pc' = "backward"
    /\ UNCHANGED <<p_req, p_xz0, p_x, p_m, p_k, p_pred, p_g, p_denorm, p_out>>
    /\ StepFrame

\* line 396: loss.backward()
StepBackward ==
    /\ p_pc = "backward"
    /\ p_g' = LoopGrad(p_req, p_pred, p_x, p_base)
    /\ p_pc' = "update"
    /\ UNCHANGED <<p_req, p_xz0, p_base, p_x, p_m, p_k, p_pred, p_dev, p_denorm, p_out>>
    /\ StepFrame

\* line 396: optimizer.step(), in place
StepUpdate ==
    /\ p_pc = "update"
    /\ p_m' = MomentAfter(p_m, p_g)
    /\ p_x' = ParamAfter(p_x, MomentAfter(p_m, p_g))
    /\ p_xz0' = AfterWrite(p_xz0, p_x')
    /\ p_pc' = AfterUpdate(p_k, RangeLen(p_req.steps))
    /\ p_k' = IF p_pc' = "clamp" THEN p_k ELSE p_k + 1
    /\ UNCHANGED <<p_req, p_base, p_pred, p_dev, p_g, p_denorm, p_out>>
    /\ StepFrame

\* lines 397-398: clamp_, in place
StepClamp ==
    /\ p_pc = "clamp"
    /\ p_x' = clamp(p_x, p_req.zmin, p_req.zmax)
    /\ p_xz0' = AfterWrite(p_xz0, p_x')
    /\ p_k' = p_k + 1
    /\ p_pc' = AfterClamp(p_k, RangeLen(p_req.steps))
    /\ UNCHANGED <<p_req, p_base, p_m, p_pred, p_dev, p_g, p_denorm, p_out>>
    /\ StepFrame

\* lines 399-405: Finalized
StepFinalize ==
    /\ p_pc = "final"
    /\ IF p_req.raw
       THEN /\ p_out' = Some(Denormalized(p_x, p_req.mean, p_req.std))
            /\ p_denorm' = p_denorm + 1
       ELSE /\ p_out' = Some(p_x)
            /\ UNCHANGED p_denorm
    /\ p_pc' = "done"
    /\ UNCHANGED <<p_req, p_xz0, p_base, p_x, p_m, p_k, p_pred, p_dev, p_g>>
    /\ StepFrame

NextStep ==
    \/ StepInitialize \/ StepForward \/ StepLoss \/ StepBackward
    \/ StepUpdate \/ StepClamp \/ StepFinalize

SpecStep == InitStep /\ [][NextStep]_vars

-----------------------------------------------------------------------------
(* float32.  A nonzero value is (-1)^s * m * 2^e with 2^23 <= m < 2^24;     *)
(* products are rounded to nearest, ties to even, as the hardware does.     *)
(* Exponents stay far from the overflow and underflow ranges here.          *)

Abs(n) == IF n < 0 THEN -n ELSE n

Two12 == 64 * 64
Two23 == Two12 * 2048
Two24 == Two12 * Two12

F32(sgn, m, e) == [s |-> sgn, m |-> m, e |-> e]
Zero32 == F32(0, 0, 0)

\* a positive integer as a float32
RECURSIVE Normalized(_, _)
Normalized(m, e) == IF m >= Two23 THEN F32(0, m, e) ELSE Normalized(2 * m, e - 1)

FromNat(n) == IF n = 0 THEN Zero32 ELSE Normalized(n, 0)

\* the mantissa after rounding up may reach 2^24
Carried(sgn, m, e) == IF m = Two24 THEN F32(sgn, Two23, e + 1) ELSE F32(sgn, m, e)

\* m with the remainder rem dropped, rem in units of which Two24 is one
\* unit of m: to nearest, ties to even
RoundEven(sgn, m, rem, e) ==
    IF rem > Two23 \/ (rem = Two23 /\ m % 2 = 1)
    THEN Carried(sgn, m + 1, e)
    ELSE F32(sgn, m, e)

\* the 48-bit product hi * 2^24 + lo of two mantissas, to 24 bits
RoundWide(sgn, w, e) ==
    IF w.hi >= Two23
    THEN RoundEven(sgn, w.hi, w.lo, e + 24)
    ELSE RoundEven(sgn, 2 * w.hi + (w.lo \div Two23), 2 * (w.lo % Two23), e + 23)

\* hi and lo of hh * 2^24 + mid * 2^12 + ll
Wide(p) ==
    [hi |-> p.hh + (p.mid \div Two12)
               + (((p.mid % Two12) * Two12 + p.ll) \div Two24),
     lo |-> ((p.mid % Two12) * Two12 + p.ll) % Two24]

\* the product of two mantissas by 12-bit halves
MulParts(a, b) ==
    [hh |-> (a \div Two12) * (b \div Two12),
     mid |-> (a \div Two12) * (b % Two12) + (a % Two12) * (b \div Two12),
     ll |-> (a % Two12) * (b % Two12)]

\* a * b in float32
Mul32(a, b) ==
    IF a.m = 0 \/ b.m = 0 THEN Zero32
    ELSE RoundWide((a.s + b.s) % 2, Wide(MulParts(a.m, b.m)), a.e + b.e)

\* the position of a float32 among the float32 of its sign
Ordinal(f) == IF f.m = 0 THEN 0 ELSE (f.e + 150) * Two23 + (f.m - Two23)

\* how many float32 lie between a and b of one sign, b counted
UlpsApart(a, b) == Abs(Ordinal(a) - Ordinal(b))

-----------------------------------------------------------------------------
(* GraphConv.forward on a single node: adj is [[a]], the feature array has  *)
(* one node, and every matrix product has one term.                         *)

\* the float32 nearest to 2^(-1/2) is SqrtHalf32 * 2^-24
SqrtHalf32 == 11863283

\* line 62: adj + torch.eye(1)
SelfLoops(a) == a + 1

\* line 64: torch.pow(deg, -0.5).  Exact for 1 and 4; for 2 the library
\* returns the nearest float32 or a neighbour of it
PowNegHalf(deg) ==
    CASE deg = 1 -> {FromNat(1)}
      [] deg = 4 -> {F32(0, Two23, -24)}
      [] deg = 2 -> {F32(0, SqrtHalf32 + k, -24) : k \in -1..1}

\* line 67: D_inv_sqrt @ adj @ D_inv_sqrt
NormAdjLeftOnly(d, adj2) == Mul32(d, FromNat(adj2))
NormAdj(d, adj2) == Mul32(Mul32(d, FromNat(adj2)), d)

\* line 68: einsum("bctv,vw->bctw", x, norm_adj) with one node
Propagate(x, norm) == [i \in DOMAIN x |-> Mul32(x[i], norm)]

\* feature values: 0, 1, 1.5, 3, -2.25 and float32(0.1)
FeatureValues ==
    {Zero32, FromNat(1), F32(0, 3 * (Two23 \div 2), -23), FromNat(3),
     F32(1, 9 * (Two23 \div 8), -22), F32(0, 13421773, -27)}

GraphArgs ==
    [adj : {0, 1, 3},
     x : UNION {[1..n -> FeatureValues] : n \in 1..MaxFeat}]

-----------------------------------------------------------------------------
(* TemporalConv on one input and one output channel: x[t][v] over time and  *)
(* nodes, a kernel of k taps along time, integers for values.               *)

\* line 54: padding=(kernel_size // 2, 0)
PaddingNone(k) == 0
Padding(k) == k \div 2

\* the length Conv2d gives an axis of length n, kernel k, padding pad on both
\* sides, stride 1
ConvOutLen(n, k, pad) == n + 2 * pad - k + 1

\* x with pad rows of zeros before and after, at row t
PaddedAt(x, pad, t, v) ==
    IF t - pad \in DOMAIN x THEN x[t - pad][v] ELSE 0

\* bias + sum over the taps, at output position (t, v)
ConvAt(x, w, b, pad, t, v) ==
    b + SumTo([j \in DOMAIN w |-> w[j] * PaddedAt(x, pad, t + j - 1, v)], Len(w))

\* F.relu
Relu(y) == IF y < 0 THEN 0 ELSE y

\* lines 52-56: the kernel is (k, 1) and the padding (k // 2, 0), so the
\* node axis keeps its length
TemporalConv(x, w, b) ==
    [t \in 1..ConvOutLen(Len(x), Len(w), Padding(Len(w))) |->
        [v \in 1..ConvOutLen(Len(x[1]), 1, 0) |->
            Relu(ConvAt(x, w, b, Padding(Len(w)), t, v))]]

ConvArgs ==
    UNION {UNION { [x : [1..n -> [1..nodes -> {-1, 1}]],
                    w : UNION {[1..k -> {-1, 1}] : k \in 1..MaxKernel},
                    b : {-1, 0}]
                 : nodes \in 1..MaxNodes} : n \in 1..MaxConvT}

-----------------------------------------------------------------------------
(* ModelRunner.run_model on a checkpoint that is a state dict               *)
(* (CP-DevFolder/server/python_runner.py).  load_model wraps such a         *)
(* checkpoint in a GenericModelWrapper (lines 30-40).  A value is a record  *)
(* [kind, shape, ragged]; an array is known by its shape.  torch.randn      *)
(* reads the process's generator, which the program never seeds: an output  *)
(* is known by its shape and the position of the generator it was drawn at. *)

RECURSIVE ListShapesOfRank(_)
ListShapesOfRank(r) ==
    IF r = 0 THEN {<<>>}
    ELSE {Append(sh, d) : sh \in ListShapesOfRank(r - 1), d \in 1..MaxDim}

ListShapes == UNION {ListShapesOfRank(r) : r \in 1..(MaxRank + 1)}

Value(kind, shape, ragged) == [kind |-> kind, shape |-> shape, ragged |-> ragged]

\* what json.loads can put into input_data: nested lists (rectangular or
\* ragged), numbers and strings
DataValues ==
    {Value("list", sh, FALSE) : sh \in ListShapes}
        \cup {Value("list", <<>>, TRUE), Value("number", <<>>, FALSE),
              Value("str", <<>>, FALSE)}

\* a second value: forward leaves it unread (line 80), prepare_data treats it
\* by its kind
SecondValues == {v \in DataValues : Len(v.shape) <= 1}

SpecTypes == {"number", "string", "other"}

RECURSIVE Numel(_)
Numel(shape) == IF shape = <<>> THEN 1 ELSE Head(shape) * Numel(Tail(shape))

\* torch.tensor(value, dtype=torch.float32) of lines 125, 145 and 87
TensorOf(v) ==
    IF v.kind = "list" /\ ~v.ragged
    THEN [exc |-> "none", val |-> Value("tensor", v.shape, FALSE)]
    ELSE [exc |-> "ValueError", val |-> v]

\* torch.tensor([value], dtype=torch.float32) of lines 127, 147 and 89
TensorOfOne(v) ==
    IF v.kind = "number"
    THEN [exc |-> "none", val |-> Value("tensor", <<1>>, FALSE)]
    ELSE [exc |-> "ValueError", val |-> v]

Kept(v) == [exc |-> "none", val |-> v]

\* lines 123-129: one value without input_specs
PreparePlain(v) ==
    CASE v.kind = "list" -> TensorOf(v)
      [] v.kind = "number" -> TensorOfOne(v)
      [] OTHER -> Kept(v)

\* lines 141-152: one value under a spec of the given type
PrepareTyped(v, type) ==
    CASE type = "number" -> IF v.kind = "list" THEN TensorOf(v) ELSE TensorOfOne(v)
      [] type = "string" -> Kept(Value("str", <<>>, FALSE))
      [] OTHER -> Kept(v)

\* lines 116-156
prepare_data(data, specs, extra) ==
    LET each == [n \in DOMAIN data |->
                    IF specs = <<>> THEN PreparePlain(data[n])
                    ELSE PrepareTyped(data[n], specs[n])]
        failed == \/ \E n \in DOMAIN data : each[n].exc # "none"
                  \/ specs # <<>> /\ extra
    IN  [exc |-> IF failed THEN "prepare_data" ELSE "none",
         inputs |-> [n \in DOMAIN data |-> each[n].val]]

\* lines 93-110: the shape of the array forward draws for an input x
FallbackShapeKeepTime(sh) ==
    CASE Len(sh) = 2 -> <<sh[1], sh[2]>>
      [] Len(sh) > 2 -> <<sh[1], sh[2], sh[Len(sh)]>>
      [] OTHER -> <<1, 3>>
FallbackShape(sh) ==
    CASE Len(sh) = 2 -> <<1, sh[2]>>
      [] Len(sh) > 2 -> <<sh[1], 1, sh[Len(sh)]>>
      [] OTHER -> <<1, 3>>

\* lines 70-112: GenericModelWrapper.forward(*args)
forward(args) ==
    IF args = <<>> THEN [exc |-> "none", shape |-> <<1, 3>>]
    ELSE LET x == CASE args[1].kind = "tensor" -> Kept(args[1])
                    [] args[1].kind = "list" -> TensorOf(args[1])
                    [] OTHER -> TensorOfOne(args[1])
         IN  IF x.exc # "none" THEN [exc |-> "forward", shape |-> <<>>]
             ELSE [exc |-> "none", shape |-> FallbackShape(x.val.shape)]

\* lines 158-213: one call; model_output has an entry when output_specs
\* names one (lines 187-189)
RunModelReturn(data, specs, extra, outspecs, gen) ==
    LET prepared == prepare_data(data, specs, extra)
        outputs == IF prepared.inputs = <<>>
                   THEN [exc |-> "none", shape |-> <<1, 3>>]
                   ELSE forward(prepared.inputs)
    IN  CASE prepared.exc # "none" ->
               [exc |-> prepared.exc, shape |-> <<>>, at |-> gen, named |-> FALSE]
          [] outputs.exc # "none" ->
               [exc |-> outputs.exc, shape |-> <<>>, at |-> gen, named |-> FALSE]
          [] OTHER ->
               [exc |-> "none", shape |-> outputs.shape, at |-> gen,
                named |-> outspecs > 0]

InitModel ==
    /\ OptIdle /\ RunIdle /\ ApiIdle /\ ConcIdle /\ FnIdle /\ LoaderIdle
    /\ m_data \in {<<>>} \cup {<<v>> : v \in DataValues}
                         \cup {<<v, w>> : v \in DataValues, w \in SecondValues}
    /\ m_specs \in {<<>>} \cup [DOMAIN m_data -> SpecTypes]
    /\ m_extra \in BOOLEAN
    /\ m_outspecs \in {0, 1}
    /\ m_gen = 0
    /\ m_ret = [c \in Runs |-> NotRun]

\* runner.run_model(model_path, input_data, input_specs, output_specs)
run_model ==
    /\ \E c \in Runs :
          /\ m_ret[c] = NotRun
          /\ \A d \in Runs : d < c => m_ret[d] # NotRun
          /\ LET ret == RunModelReturn(m_data, m_specs, m_extra, m_outspecs, m_gen)
             IN /\ m_ret' = [m_ret EXCEPT ![c] = ret]
                /\ m_gen' = m_gen + (IF ret.exc = "none" THEN Numel(ret.shape) ELSE 0)
    /\ UNCHANGED <<m_data, m_specs, m_extra, m_outspecs>>
    /\ UNCHANGED <<l_pc, state, scaler_file, l_exc, l_stgcn, l_head, l_scaler,
                   l_sg_given, l_kh_given, l_sg_assigned, l_kh_assigned>>
    /\ UNCHANGED <<optVars, runVars, apiVars, concVars, fnVars>>

NextModel == run_model

SpecModel == InitModel /\ [][NextModel]_vars

-----------------------------------------------------------------------------
(* flat8_to_stgcn_x.  p8[b][c][t] with the channel c counted from 0 as in   *)
(* the code; every element of the input carries a value of its own.         *)

\* an input of shape [B, C, T] whose elements are pairwise different and not 0
Labelled(B, C8, tl, sgn) ==
    [b \in 1..B |-> [c \in 0..(C8 - 1) |-> [t \in 1..tl |->
        sgn * (t + MaxFlatT * (c + (ParamChannels + 2) * (b - 1)))]]]

\* lines 117-119: the slices 0:3, 3:6 and 6:8 of the channel axis
NodeSliceOverlapping(n) == IF n = 2 THEN <<5, 6>> ELSE <<3 * n, 3 * n + 1, 3 * n + 2>>
NodeSlice(n) == IF n = 2 THEN <<6, 7>> ELSE <<3 * n, 3 * n + 1, 3 * n + 2>>

\* lines 117-122: channel i of node n at (b, t); Cn is padded with zeros
StackedAt(p8, b, i, t, n) ==
    IF i + 1 <= Len(NodeSlice(n)) THEN p8[b][NodeSlice(n)[i + 1]][t] ELSE 0

\* lines 113-122
flat8_to_stgcn_x(p8) ==
    IF Cardinality(DOMAIN p8[1]) # ParamChannels
    THEN [exc |-> "AssertionError", out |-> <<>>]
    ELSE [exc |-> "none",
          out |-> [b \in DOMAIN p8 |-> [i \in 0..(InChannels - 1) |->
                     [t \in DOMAIN p8[1][0] |-> [n \in 0..(NumNodes - 1) |->
                        StackedAt(p8, b, i, t, n)]]]]]

Flat8Args ==
    UNION {UNION {{[p8 |-> Labelled(B, C8, tl, sgn)] : sgn \in {-1, 1}}
                  : tl \in 1..MaxFlatT, C8 \in (ParamChannels - 1)..(ParamChannels + 1)}
           : B \in 1..MaxBatch}

\* x4 = flat8_to_stgcn_x(p8)
FlatForward ==
    /\ f_pc = "called" /\ f_fn = "flat8_to_stgcn_x"
    /\ f_res' = flat8_to_stgcn_x(f_arg.p8)
    /\ f_pc' = "returned"
    /\ UNCHANGED <<f_fn, f_arg>>
    /\ UNCHANGED <<optVars, runVars, apiVars, loadVars, concVars>>

-----------------------------------------------------------------------------
(* z_apply and z_inv.  Array elements and means are integers; a normalized  *)
(* value is an exact fraction.                                              *)

\* the greatest common divisor of two naturals
RECURSIVE Gcd(_, _)
Gcd(a, b) == IF b = 0 THEN a ELSE Gcd(b, a % b)

\* n/d in lowest terms with a positive denominator; a zero denominator
\* stands for the inf (n # 0) and nan (n = 0) of a division by zero
Lowest(n, d, g) ==
    IF g = 0 THEN [n |-> 0, d |-> 0]
    ELSE IF d < 0 THEN [n |-> -(n \div g), d |-> -(d \div g)]
    ELSE [n |-> n \div g, d |-> d \div g]

Rat(n, d) == Lowest(n, d, Gcd(Abs(n), Abs(d)))

\* a number of scaler_params.json: the integer v, or a nonzero double below
\* half the smallest float32 (1e-50, say)
Json(v) == [v |-> v, tiny |-> FALSE]
JsonTiny == [v |-> 0, tiny |-> TRUE]

\* np.asarray(..., dtype=np.float32) on one number: a double below the
\* float32 range becomes 0
AsFloat32(j) == j.v

\* the number is not zero as the file gives it
NonZero(j) == j.tiny \/ j.v # 0

\* the channels of the arrays (8 for parameters, 3 for KPIs in the program)
ScalerChannels == 1..2

\* line 105, std[std == 0] = 1.0, on one entry
GuardedNone(sd) == sd
Guarded(sd) == IF sd = 0 THEN 1 ELSE sd

\* line 106 on one element
ZScore(x, mean, sd) == Rat(x - mean, sd)

\* lines 102-106.  stat["mean"] and stat["std"] are lists: np.asarray builds
\* new arrays from them, and the guard writes into the new array
z_apply(arr, stat) ==
    [r \in DOMAIN arr |->
        [c \in ScalerChannels |->
            ZScore(arr[r][c], AsFloat32(stat.mean[c]),
                   Guarded(AsFloat32(stat.std[c])))]]

\* line 111 on one element: z * std + mean
Unscore(z, mean, sd) == Rat(z.n * sd + mean * z.d, z.d)

\* lines 108-111
z_inv(arr, stat) ==
    [r \in DOMAIN arr |->
        [c \in ScalerChannels |->
            Unscore(arr[r][c], AsFloat32(stat.mean[c]), AsFloat32(stat.std[c]))]]

\* the stats mapping after a call of z_apply or z_inv: its lists are read,
\* never written
StatAfter(stat) == stat

ScalerArrays ==
    UNION {[1..n -> [ScalerChannels -> {-1, 0, 2}]] : n \in 1..MaxRows}

ScalerStats ==
    [mean : [ScalerChannels -> {Json(0), Json(1)}],
     std : [ScalerChannels -> {Json(0), JsonTiny, Json(1), Json(2)}]]

ScalerArgs == [arr : ScalerArrays, stat : ScalerStats]

InitFn ==
    /\ OptIdle /\ RunIdle /\ ApiIdle /\ LoadIdle /\ ConcIdle
    /\ f_pc = "called"
    /\ \/ f_fn = "scaler" /\ f_arg \in ScalerArgs
       \/ f_fn = "GraphConv" /\ f_arg \in GraphArgs
       \/ f_fn = "TemporalConv" /\ f_arg \in ConvArgs
       \/ f_fn = "flat8_to_stgcn_x" /\ f_arg \in Flat8Args
    /\ f_res = <<>>

\* xz = z_apply(arr, SCALER[...])
ApplyScaler ==
    /\ f_pc = "called" /\ f_fn = "scaler"
    /\ f_res' = [z |-> z_apply(f_arg.arr, f_arg.stat), back |-> <<>>,
                 stat |-> StatAfter(f_arg.stat)]
    /\ f_pc' = "applied"
    /\ UNCHANGED <<f_fn, f_arg>>
    /\ UNCHANGED <<optVars, runVars, apiVars, loadVars, concVars>>

\* z_inv(xz, SCALER[...]) on what z_apply returned
InvertScaler ==
    /\ f_pc = "applied" /\ f_fn = "scaler"
    /\ f_res' = [f_res EXCEPT !.back = z_inv(f_res.z, f_res.stat),
                              !.stat = StatAfter(f_res.stat)]
    /\ f_pc' = "returned"
    /\ UNCHANGED <<f_fn, f_arg>>
    /\ UNCHANGED <<optVars, runVars, apiVars, loadVars, concVars>>

\* GraphConv.forward(x, adj), lines 61-68
GraphForward ==
    /\ f_pc = "called" /\ f_fn = "GraphConv"
    /\ \E d \in PowNegHalf(SelfLoops(f_arg.adj)) :
          f_res' = [adj2 |-> SelfLoops(f_arg.adj),
                    deg |-> SelfLoops(f_arg.adj),
                    norm |-> NormAdj(d, SelfLoops(f_arg.adj)),
                    out |-> Propagate(f_arg.x, NormAdj(d, SelfLoops(f_arg.adj)))]
    /\ f_pc' = "returned"
    /\ UNCHANGED <<f_fn, f_arg>>
    /\ UNCHANGED <<optVars, runVars, apiVars, loadVars, concVars>>

\* TemporalConv.forward(x), line 56
TemporalForward ==
    /\ f_pc = "called" /\ f_fn = "TemporalConv"
    /\ f_res' = [out |-> TemporalConv(f_arg.x, f_arg.w, f_arg.b)]
    /\ f_pc' = "returned"
    /\ UNCHANGED <<f_fn, f_arg>>
    /\ UNCHANGED <<optVars, runVars, apiVars, loadVars, concVars>>

NextFn ==
    \/ ApplyScaler \/ InvertScaler \/ GraphForward \/ TemporalForward
    \/ FlatForward

SpecFn == InitFn /\ [][NextFn]_vars

-----------------------------------------------------------------------------
(* Properties of the optimizer call *)

InBox(x) == zmin <= x /\ x <= zmax

\* C1 (as stated): after every iteration's update, every element of the
\* decision array lies in the closed interval [zmin, zmax], for every zmin
\* and zmax the call is run with.
C1_ClampInvariantAnyBounds ==
    (o_pc \in {"loop", "done"} /\ iters >= 1) =>
        \A t \in 1..T : InBox(opt_params[t])

\* What the loop does keep: with zmin <= zmax every element is in the box
\* after each iteration, and with zmin > zmax every element equals zmax.
ClampedWhenOrdered ==
    (o_pc \in {"loop", "done"} /\ iters >= 1) =>
        \A t \in 1..T :
            IF zmin <= zmax THEN InBox(opt_params[t]) ELSE opt_params[t] = zmax

\* C2 (as stated): the loop body executes exactly `steps` times, for every
\* value of steps, before the call finalizes.
C2_ExactlyStepsAnySteps == (o_pc = "done") => iters = steps

\* C2 (amended): a call that finalizes has executed the body exactly
\* max(steps, 0) times; while looping the body count equals the loop index
\* and never passes that number; the loop never stops early: until the call
\* is done a step is always possible, whatever loss_dev was.
C2_FixedStepTermination ==
    /\ (o_pc = "done") => iters = (IF steps > 0 THEN steps ELSE 0)
    /\ (o_pc = "loop") => (iters = step /\ iters <= (IF steps > 0 THEN steps ELSE 0))
    /\ (o_pc # "done") => ENABLED NextOpt

C2_Witness == o_pc = "done" /\ steps = MaxSteps /\ iters = MaxSteps /\ loss_dev > 0

\* C3: without a baseline loss_dev is 0 at every iteration, whatever beta is,
\* and the call goes on to finalize (no error state exists for it).
C3_ZeroBaselineDeviation ==
    (~has_base) =>
        /\ loss_dev = 0
        /\ (o_pc # "done") => ENABLED NextOpt

C3_Witness ==
    /\ ~has_base /\ beta > 0 /\ o_pc = "loop" /\ iters >= 2
    /\ \E t \in 1..T : opt_params[t] # 0
    /\ loss_dev = 0

-----------------------------------------------------------------------------
(* Properties of the validator and of the hand-over to app.py *)

\* the items of execution_config the validator has gone through
Seen == IF r_pc = "validating" THEN 1..(r_i - 1)
        ELSE IF r_pc = "config" THEN {}
        ELSE 1..Len(execution_config)

\* the mapping _validate_execution_params returned, if it returned
Returned == r_pc \in {"command", "running", "failed"} /\ execution_config # <<>>

\* a finite float within [lo, hi]
Within(f, lo, hi) == f.k = "fin" /\ FloatLeq(lo, f) /\ FloatLeq(f, hi)

\* the value a raw value stands for under its key: the number and whether it
\* is a number of the key's type within the key's bounds
Accepts(key, raw) ==
    LET f == PyFloat(raw)
    IN  /\ f.exc = "none"
        /\ IF key = "steps"
           THEN /\ f.val.k = "fin"
                /\ 1 <= IntOfFloat(f.val).val /\ IntOfFloat(f.val).val <= 10000
           ELSE Within(f.val, FloatLo(key), FloatHi(key))
Accepted(key, raw) ==
    IF key = "steps" THEN RInt(IntOfFloat(PyFloat(raw).val).val)
    ELSE RFloat(PyFloat(raw).val)

\* C4 (as stated): _validate_execution_params returns for every input
\* mapping; no value of a hyperparameter makes it raise and abort the
\* execute_with_data request.
C4_ValidatorNeverRaises == v_exc = "none" /\ r_pc # "aborted"

\* C5: every entry of the sanitized mapping has one of the seven recognized
\* keys and a value of the key's type inside the key's closed bounds (steps
\* an integer in [1, 10000]; alpha, beta, gamma in [0, 100]; lr in [1e-6, 1];
\* zmin, zmax in [-10, 10]); an item with an unrecognized key, an
\* unparseable value or a value out of range leaves no entry.
C5_ValidatorSoundness ==
    /\ \A j \in 1..Len(safe_params) :
          LET key == safe_params[j][1]
              v == safe_params[j][2]
          IN  /\ key \in {"steps", "alpha", "beta", "gamma", "lr", "zmin", "zmax"}
              /\ key = "steps" => v.t = "int" /\ 1 <= v.n /\ v.n <= 10000
              /\ key \in {"alpha", "beta", "gamma"} =>
                    v.t = "float" /\ Within(v.f, Whole(0), Whole(100))
              /\ key = "lr" =>
                    v.t = "float" /\ Within(v.f, Fin(0, 10), Whole(1))
              /\ key \in {"zmin", "zmax"} =>
                    v.t = "float" /\ Within(v.f, Whole(-10), Whole(10))
    /\ \A j \in Seen :
          LET key == execution_config[j][1]
              raw == execution_config[j][2]
          IN  (key \notin ValidatedKeys \/ ~Accepts(key, raw)) =>
                  key \notin Keys(safe_params)

\* a returned mapping that kept one item and dropped another
C5_Witness ==
    /\ Returned /\ Len(execution_config) = 2 /\ Len(safe_params) = 1
    /\ \E j \in 1..2 : /\ execution_config[j][1] = "steps"
                       /\ execution_config[j][2] = RInt(50000)

\* what holds of every mapping the validator returns: each acceptable item
\* is in it with its parsed value, each other key is absent from it and from
\* the command line, and the optimizer then runs with that key's default
CompleteWhenReturned ==
    Returned =>
        /\ \A j \in 1..Len(execution_config) :
              LET key == execution_config[j][1]
                  raw == execution_config[j][2]
              IN  (key \in ValidatedKeys /\ Accepts(key, raw)) =>
                      /\ key \in Keys(safe_params)
                      /\ Get(safe_params, key) = Accepted(key, raw)
        /\ \A key \in ValidatedKeys \ Keys(safe_params) :
              /\ key \notin Keys(cmd_flags)
              /\ r_pc = "running" => cfg[key] = Default(key)

\* C6 (as stated): every supplied recognized key whose value parses to a
\* value inside its bounds is in the sanitized output with the parsed value,
\* whatever the other items of the mapping are; every other key is absent,
\* gets no flag and runs with the optimizer's default.
C6_ValidatorCompleteness ==
    (r_pc \in {"command", "running", "failed", "aborted"} /\ execution_config # <<>>) =>
        /\ \A j \in 1..Len(execution_config) :
              LET key == execution_config[j][1]
                  raw == execution_config[j][2]
              IN  (key \in ValidatedKeys /\ Accepts(key, raw)) =>
                      /\ r_pc # "aborted"
                      /\ key \in Keys(safe_params)
                      /\ Get(safe_params, key) = Accepted(key, raw)
        /\ r_pc # "aborted" =>
              \A key \in ValidatedKeys \ Keys(safe_params) :
                  /\ key \notin Keys(cmd_flags)
                  /\ r_pc = "running" => cfg[key] = Default(key)

\* C7 (as stated): every configuration the optimizer loop is run with after
\* the validator has alpha, beta, gamma >= 0, steps >= 1, lr > 0 and
\* zmin <= zmax.
C7_ConfigWellFormed ==
    r_pc = "running" =>
        /\ \A key \in {"alpha", "beta", "gamma"} : FloatLeq(Whole(0), cfg[key].f)
        /\ cfg["steps"].n >= 1
        /\ FloatLeq(Whole(0), cfg["lr"].f) /\ cfg["lr"].f # Whole(0)
        /\ FloatLeq(cfg["zmin"].f, cfg["zmax"].f)

\* the part of C7 the validator does ensure: everything but zmin <= zmax
WellFormedButOrder ==
    r_pc = "running" =>
        /\ \A key \in {"alpha", "beta", "gamma"} : FloatLeq(Whole(0), cfg[key].f)
        /\ cfg["steps"].n >= 1
        /\ FloatLeq(Whole(0), cfg["lr"].f) /\ cfg["lr"].f # Whole(0)

-----------------------------------------------------------------------------
(* Properties of the server's shape handling *)

\* rank 2 or 3 with trailing dimension d
Batchable(shape, d) ==
    \/ Len(shape) = 2 /\ shape[2] = d
    \/ Len(shape) = 3 /\ shape[3] = d

\* batch size and time length of a batchable shape
BatchOf(shape) == IF Len(shape) = 2 THEN 1 ELSE shape[1]
TimeOf(shape) == IF Len(shape) = 2 THEN shape[1] ELSE shape[2]

\* C8: ensure_batched(arr, d) returns arr under a leading axis of size 1 for
\* rank 2 with trailing dimension d, arr itself for rank 3 with trailing
\* dimension d, and raises otherwise; predict_kpi (d = 8) and
\* optimize_params_api (d = 3 for the target, d = 8 for the baseline) then
\* end with the exception, no forward evaluation and no output.
C8_ShapeError ==
    /\ (a_fn = "ensure_batched" /\ a_pc # "called") =>
          IF Len(a_arr) = 2 /\ a_arr[2] = a_last
          THEN a_pc = "returned" /\ a_out = Some(<<1, a_arr[1], a_arr[2]>>)
          ELSE IF Len(a_arr) = 3 /\ a_arr[3] = a_last
          THEN a_pc = "returned" /\ a_out = Some(a_arr)
          ELSE a_pc = "raised" /\ a_exc = "ValueError" /\ a_out = NoArray
    /\ (a_fn = "predict_kpi" /\ a_pc # "called" /\ ~Batchable(a_arr, 8)) =>
          a_pc = "raised" /\ a_exc = "ValueError" /\ a_runs = 0 /\ a_out = NoArray
    /\ (/\ a_fn = "optimize_params_api" /\ a_pc # "called"
        /\ \/ ~Batchable(a_arr, 3)
           \/ a_base.some /\ a_idx = NoArray /\ ~Batchable(a_base.v, 8)) =>
          a_pc = "raised" /\ a_exc = "ValueError" /\ a_runs = 0 /\ a_out = NoArray

\* an optimize call with a good target whose rank-3 baseline has 3 channels
C8_Witness ==
    /\ a_fn = "optimize_params_api" /\ a_pc = "raised"
    /\ Batchable(a_arr, 3) /\ a_idx = NoArray
    /\ a_base.some /\ Len(a_base.v) = 3 /\ a_base.v[3] = 3
    /\ a_steps > 0 /\ a_runs = 0 /\ a_out = NoArray

\* C9 (as stated): in every optimize_params_api call that returns, the
\* target, the baseline when supplied, the decision array and the returned
\* array have the same batch size and time length; a call whose baseline
\* differs from the target in either does not return.
C9_SameBatchAndTime ==
    (a_fn = "optimize_params_api" /\ a_pc = "returned") =>
        /\ a_dec = Some(<<BatchOf(a_arr), 8, TimeOf(a_arr)>>)
        /\ a_out = Some(<<BatchOf(a_arr), TimeOf(a_arr), 8>>)
        /\ a_base.some =>
              /\ BatchOf(a_base.v) = BatchOf(a_arr)
              /\ TimeOf(a_base.v) = TimeOf(a_arr)

\* what does hold: without a baseline, or with one of the target's batch
\* size and time length, every returned array is [B,T,8]
SameBatchAndTimeWhenAligned ==
    (/\ a_fn = "optimize_params_api" /\ a_pc = "returned"
     /\ a_base.some => /\ BatchOf(a_base.v) = BatchOf(a_arr)
                       /\ TimeOf(a_base.v) = TimeOf(a_arr)) =>
        /\ a_dec = Some(<<BatchOf(a_arr), 8, TimeOf(a_arr)>>)
        /\ a_out = Some(<<BatchOf(a_arr), TimeOf(a_arr), 8>>)

-----------------------------------------------------------------------------
(* Properties of load_artifacts *)

\* layout (a): a mapping holding both "stgcn" and "kpi_head"
LayoutA(st) == st.kind = "mapping" /\ {"stgcn", "kpi_head"} \subseteq st.keys

\* layout (b): a mapping with key "state_dict"
LayoutB(st) == st.kind = "mapping" /\ "state_dict" \in st.keys

\* C10 (as stated): load_artifacts returns a model only for an artifact of
\* layout (a) or (b); for every artifact of neither layout it raises and
\* returns no model and no scaler.
C10_LayoutDispatch ==
    /\ l_pc = "returned" => LayoutA(state) \/ LayoutB(state)
    /\ (l_pc \in {"returned", "raised"} /\ ~LayoutA(state) /\ ~LayoutB(state)) =>
          /\ l_pc = "raised" /\ l_exc # "none"
          /\ l_stgcn = "none" /\ l_head = "none" /\ ~l_scaler

\* what does hold: a model is returned only for a mapping with "stgcn" or
\* "state_dict"; an artifact with neither key ends in an exception with no
\* model and no scaler; a returned head is random exactly when the artifact
\* brought no weights for it
LayoutDispatchHeadOptional ==
    /\ l_pc = "returned" =>
          /\ state.kind = "mapping"
          /\ "stgcn" \in state.keys \/ "state_dict" \in state.keys
          /\ l_scaler /\ l_stgcn # "none" /\ l_head # "none"
    /\ (l_pc \in {"returned", "raised"}
        /\ "stgcn" \notin state.keys /\ "state_dict" \notin state.keys) =>
          /\ l_pc = "raised" /\ l_exc # "none"
          /\ l_stgcn = "none" /\ l_head = "none" /\ ~l_scaler
    /\ (l_pc = "raised") => (l_stgcn = "none" /\ l_head = "none" /\ ~l_scaler)

\* the state_dict branch was taken and load_artifacts returned
ViaStateDict == l_pc = "returned" /\ l_stgcn = "filtered"

\* k with the leading p taken off
StripPrefix(k, p) == SubSeq(k, Len(p) + 1, Len(k))

\* the entries of names under prefix p, each with p taken off
Stripped(names, p) ==
    {<<StripPrefix(k, p), k>> : k \in {n \in names : StartsWith(n, p)}}

\* C11 (as stated): in the state_dict branch the mapping loaded into the
\* forward model is exactly the "stgcn."-prefixed entries with the prefix
\* stripped, the mapping loaded into the KPI head is exactly the
\* "kpi_head."-prefixed entries with the prefix stripped, and every such
\* entry whose stripped name is a parameter name is assigned to it.
C11_PrefixStripped ==
    ViaStateDict =>
        /\ l_sg_given = Stripped(state.names, StgcnPrefix)
        /\ l_kh_given = Stripped(state.names, HeadPrefix)
        /\ l_sg_assigned = Assigned(Stripped(state.names, StgcnPrefix), StgcnParams)
        /\ l_kh_assigned = Assigned(Stripped(state.names, HeadPrefix), HeadParams)

\* what does hold: the KPI head is loaded as stated; the forward model is
\* handed its entries under their full "stgcn."-prefixed names and takes no
\* value from the artifact
HeadPrefixStripped ==
    ViaStateDict =>
        /\ l_kh_given = Stripped(state.names, HeadPrefix)
        /\ l_kh_assigned = Assigned(Stripped(state.names, HeadPrefix), HeadParams)
        /\ l_sg_given = {<<k, k>> : k \in {n \in state.names : StartsWith(n, StgcnPrefix)}}
        /\ l_sg_assigned = {}

-----------------------------------------------------------------------------
(* Properties of concurrent server calls *)

\* C12: under every interleaving of concurrent predict_kpi and
\* optimize_params_api calls no step changes the values of the weights of
\* STGCN_MODEL and KPI_HEAD or the adjacency matrix ADJ.
C12_SharedArtifactsReadOnly ==
    [][g_weights' = g_weights /\ g_adj' = g_adj]_vars

\* two optimize calls are past their first backward pass, one of them about
\* to clamp after optimizer.step(), with gradient on the weights
C12_Witness ==
    \E c \in Calls : \E d \in Calls \ {c} :
        /\ c_pc[c] = "clamp" /\ g_wgrad # 0
        /\ c_req[d].kind = "optimize_params_api" /\ c_pc[d] \in {"step", "clamp"}

\* one iteration of a call run alone
AloneAfterGrad(s, g) ==
    [x |-> clamp(ParamAfter(s.x, MomentAfter(s.m, g)), -MaxClamp, MaxClamp),
     m |-> MomentAfter(s.m, g)]

AloneStep(s, req, w, adj) ==
    AloneAfterGrad(s, GradX(req, w, adj, Forward(w, adj, s.x), s.x))

RECURSIVE AloneFrom(_, _, _, _, _)
AloneFrom(s, k, req, w, adj) ==
    IF k = 0 THEN s.x ELSE AloneFrom(AloneStep(s, req, w, adj), k - 1, req, w, adj)

\* what the request returns when no other call runs
Alone(req, w, adj) ==
    IF req.kind = "predict_kpi" THEN Forward(w, adj, req.x0)
    ELSE AloneFrom([x |-> StartOf(req), m |-> 0], RangeLen(req.steps), req, w, adj)

\* C13 (as stated): no state written by one invocation is written by
\* another, and each invocation returns what it returns when run alone.
C13_PerCallState ==
    /\ Cardinality(g_writers) <= 1
    /\ \A c \in Calls :
          c_pc[c] = "done" => c_out[c] = Some(Alone(c_req[c], g_weights, g_adj))

\* what does hold: under every interleaving each invocation returns what it
\* returns when run alone
SameResultAsAlone ==
    \A c \in Calls :
        c_pc[c] = "done" => c_out[c] = Some(Alone(c_req[c], g_weights, g_adj))

-----------------------------------------------------------------------------
(* Properties of the initialization and the finalization *)

\* C14 (as stated): the decision array a call creates has shape [B,8,T],
\* B and T the batch size and time length of the target KPI array (and
\* holds the normalized baseline when one is supplied, zeros otherwise).
C14_InitialShape ==
    (a_fn = "optimize_params_api" /\ a_dec.some) =>
        a_dec = Some(<<BatchOf(a_arr), 8, TimeOf(a_arr)>>)

\* what does hold, server: without a baseline the decision array is [B,8,T];
\* with one it has the baseline's batch size and time length
InitialShapeOfBaseline ==
    (a_fn = "optimize_params_api" /\ a_dec.some) =>
        a_dec = IF a_base.some
                THEN Some(<<BatchOf(a_base.v), 8, TimeOf(a_base.v)>>)
                ELSE Some(<<BatchOf(a_arr), 8, TimeOf(a_arr)>>)

\* what does hold, batch path: before the first iteration the decision array
\* is the normalized baseline, or zeros, over the target's time length
InitializedFromBaseline ==
    (o_pc = "loop" /\ iters = 0) =>
        /\ Len(opt_params) = T
        /\ opt_params = IF has_base THEN base_in ELSE Zeros(T)

\* C15 (as stated, on shapes): the array optimize_params_api returns is the
\* final decision array [B,8,T] transposed to [B,T,8], with return_raw or
\* without.
C15_ReturnedIsTransposed ==
    (a_fn = "optimize_params_api" /\ a_pc = "returned") =>
        a_out = Some(Transposed(a_dec.v))

\* what does hold: without return_raw the returned array has the transposed
\* decision array's shape; with it, the target's batch size and time length
\* over as many elements
ReturnedShapeByRaw ==
    (a_fn = "optimize_params_api" /\ a_pc = "returned") =>
        IF a_raw
        THEN /\ a_out = Some(<<BatchOf(a_arr), TimeOf(a_arr), 8>>)
             /\ Size(a_out.v) = Size(a_dec.v)
        ELSE a_out = Some(Transposed(a_dec.v))

-----------------------------------------------------------------------------
(* Properties of the scaler *)

\* the array as exact fractions
AsRats(arr) == [r \in DOMAIN arr |-> [c \in ScalerChannels |-> Rat(arr[r][c], 1)]]

\* C16 (as stated): for every array and every stats whose std entries are
\* all nonzero, z_inv(z_apply(x, stats), stats) equals x.
C16_RoundTrip ==
    (/\ f_fn = "scaler" /\ f_pc = "returned"
     /\ \A c \in ScalerChannels : NonZero(f_arg.stat.std[c])) =>
        f_res.back = AsRats(f_arg.arr)

\* what does hold: the round trip is exact on every channel whose std is
\* nonzero as a float32
RoundTripWhenFloat32NonZero ==
    (f_fn = "scaler" /\ f_pc = "returned") =>
        \A r \in DOMAIN f_arg.arr : \A c \in ScalerChannels :
            AsFloat32(f_arg.stat.std[c]) # 0 =>
                f_res.back[r][c] = Rat(f_arg.arr[r][c], 1)

\* C17: on every channel whose std is 0, z_apply returns x - mean (divisor
\* 1, no division by zero, no error), and z_apply and z_inv leave the
\* supplied stats mapping as it was.
C17_ZeroStdGuard ==
    (f_fn = "scaler" /\ f_pc \in {"applied", "returned"}) =>
        /\ f_res.stat = f_arg.stat
        /\ \A r \in DOMAIN f_arg.arr : \A c \in ScalerChannels :
              AsFloat32(f_arg.stat.std[c]) = 0 =>
                  f_res.z[r][c] =
                      [n |-> f_arg.arr[r][c] - AsFloat32(f_arg.stat.mean[c]), d |-> 1]

\* z_apply has met a zero std on a channel where x differs from the mean
C17_Witness ==
    /\ f_fn = "scaler" /\ f_pc = "applied"
    /\ \E r \in DOMAIN f_arg.arr : \E c \in ScalerChannels :
          /\ f_arg.stat.std[c] = Json(0)
          /\ f_arg.arr[r][c] # AsFloat32(f_arg.stat.mean[c])
          /\ f_res.z[r][c].d = 1

-----------------------------------------------------------------------------
(* Properties of the graph propagation *)

\* C18 (as stated): for the adjacency matrix [[1]] GraphConv.forward returns
\* the feature array unchanged, the normalized adjacency being [[1]].
C18_GraphIdentity ==
    (f_fn = "GraphConv" /\ f_pc = "returned" /\ f_arg.adj = 1) =>
        /\ f_res.adj2 = 2 /\ f_res.deg = 2
        /\ f_res.norm = FromNat(1)
        /\ f_res.out = f_arg.x

\* C18 (amended): for [[1]] the self-loop gives A' = [[2]] and degree 2; the
\* normalized adjacency is within 3 float32 of 1, and every element of the
\* returned array has the sign of the element it comes from, is zero exactly
\* when that one is, and lies within 3 float32 of it.
C18_GraphIdentityRounded ==
    (f_fn = "GraphConv" /\ f_pc = "returned" /\ f_arg.adj = 1) =>
        /\ f_res.adj2 = 2 /\ f_res.deg = 2
        /\ UlpsApart(f_res.norm, FromNat(1)) <= 3
        /\ \A i \in DOMAIN f_arg.x :
              /\ f_res.out[i].s = f_arg.x[i].s
              /\ (f_res.out[i].m = 0) = (f_arg.x[i].m = 0)
              /\ UlpsApart(f_res.out[i], f_arg.x[i]) <= 3

\* [[1]] applied to an array with a nonzero element, which came back changed
C18_Witness ==
    /\ f_fn = "GraphConv" /\ f_pc = "returned" /\ f_arg.adj = 1
    /\ \E i \in DOMAIN f_arg.x :
          f_arg.x[i].m # 0 /\ UlpsApart(f_res.out[i], f_arg.x[i]) = 1

-----------------------------------------------------------------------------
(* Properties of the temporal filter *)

\* C19: for every odd kernel size and every time length T >= 1 the output of
\* TemporalConv has time length T and the input's node count, and every
\* element of it is >= 0.
C19_LengthPreserved ==
    (f_fn = "TemporalConv" /\ f_pc = "returned" /\ Len(f_arg.w) % 2 = 1) =>
        /\ Len(f_res.out) = Len(f_arg.x)
        /\ \A t \in DOMAIN f_res.out :
              /\ Len(f_res.out[t]) = Len(f_arg.x[1])
              /\ \A v \in DOMAIN f_res.out[t] : f_res.out[t][v] >= 0

\* a kernel of 3 taps over a shorter input, with a rectified element beside
\* a positive one
C19_Witness ==
    /\ f_fn = "TemporalConv" /\ f_pc = "returned"
    /\ Len(f_arg.w) = 3 /\ Len(f_arg.x) = 2 /\ Len(f_res.out) = 2
    /\ \E t \in DOMAIN f_res.out : \E v \in DOMAIN f_res.out[t] :
          /\ f_res.out[t][v] = 0
          /\ ConvAt(f_arg.x, f_arg.w, f_arg.b, 1, t, v) < 0
    /\ \E t \in DOMAIN f_res.out : \E v \in DOMAIN f_res.out[t] :
          f_res.out[t][v] > 0

\* an even kernel size lengthens the time axis by one
EvenKernelLengthens ==
    (f_fn = "TemporalConv" /\ f_pc = "returned" /\ Len(f_arg.w) % 2 = 0) =>
        Len(f_res.out) = Len(f_arg.x) + 1

-----------------------------------------------------------------------------
(* Properties of the pooling before the KPI head *)

\* C20 (as stated): in the optimization path the features are averaged over
\* the time axis, so pred has shape [batch,3,1]; in the prediction path
\* pred has shape [batch,3,time].
C20_PoolingByPath ==
    /\ (a_fn = "optimize_params_api" /\ a_pred.some) =>
          a_pred = Some(<<a_dec.v[1], 3, 1>>)
    /\ (a_fn = "predict_kpi" /\ a_pred.some) =>
          a_pred = Some(<<BatchOf(a_arr), 3, TimeOf(a_arr)>>)

\* C20 (amended): in both paths the features are averaged over the node
\* axis.  In the optimization path pred has shape [B,3,T,1], B and T those of
\* the decision array: one KPI estimate per time step; in the prediction
\* path the last axis is squeezed, pred has shape [B,3,T] and [B,T,3] is
\* returned.
C20_PoolingOverNodes ==
    /\ (a_fn = "optimize_params_api" /\ a_pred.some) =>
          a_pred = Some(<<a_dec.v[1], 3, a_dec.v[3], 1>>)
    /\ (a_fn = "predict_kpi" /\ a_pred.some) =>
          /\ a_pred = Some(<<BatchOf(a_arr), 3, TimeOf(a_arr)>>)
          /\ a_out = Some(<<BatchOf(a_arr), TimeOf(a_arr), 3>>)
    /\ (a_fn = "optimize_params_api" /\ a_runs > 0) => a_pred.some
    /\ (a_fn = "predict_kpi" /\ a_pc = "returned") => a_pred.some

\* an optimize call over more than one time step has run its loop and
\* returned
C20_Witness ==
    /\ a_fn = "optimize_params_api" /\ a_pc = "returned" /\ a_runs > 0
    /\ a_dec.v[3] > 1 /\ a_pred = Some(<<a_dec.v[1], 3, a_dec.v[3], 1>>)

-----------------------------------------------------------------------------
(* Properties of execute_with_data *)

\* execute_with_data has returned
ExecReturned == e_ret # NoReturn

\* C21: when the 300-second timeout of subprocess.run expires, the call
\* returns status 'error' with an empty predictions list and confidence 0,
\* whatever the killed subprocess had written to the output file.
C21_TimeoutDiscardsProgress ==
    e_proc.end = "timeout" =>
        /\ e_ret.status = "error"
        /\ e_ret.predictions = 0
        /\ e_ret.confidence = 0

\* a timed-out call whose subprocess had already written rows
C21_Witness ==
    /\ e_proc.end = "timeout" /\ e_proc.rows > 0
    /\ e_ret.status = "error" /\ e_ret.predictions = 0

\* C23: the argument list is the interpreter, the app path, --input_path,
\* --out_path and their paths, then one pair --<key> <value> for each entry
\* of the sanitized mapping and nothing else: each key is one of the seven
\* recognized names, each value is the text of the number the validator
\* accepted for that key, and no key or value of an item that failed
\* validation is in the list.
C23_CommandLineSanitized ==
    r_pc \in {"command", "running", "failed"} =>
        LET cmd == CmdArgs(cmd_flags)
        IN  /\ Len(cmd) = 6 + 2 * Len(safe_params)
            /\ SubSeq(cmd, 1, 6) = CmdPrefix
            /\ \A j \in 1..Len(safe_params) :
                  /\ cmd[5 + 2 * j].kind = "flag"
                  /\ cmd[5 + 2 * j].name \in
                        {"steps", "alpha", "beta", "gamma", "lr", "zmin", "zmax"}
                  /\ cmd[6 + 2 * j].kind = "text"
                  /\ \E i \in 1..Len(execution_config) :
                        /\ execution_config[i][1] = cmd[5 + 2 * j].name
                        /\ Accepts(execution_config[i][1], execution_config[i][2])
                        /\ cmd[6 + 2 * j].text =
                              PyStr(Accepted(execution_config[i][1],
                                             execution_config[i][2]))
            /\ \A i \in 1..Len(execution_config) :
                  LET key == execution_config[i][1]
                      raw == execution_config[i][2]
                  IN  (key \notin ValidatedKeys \/ ~Accepts(key, raw)) =>
                          \A n \in 7..Len(cmd) :
                              /\ cmd[n].name # key
                              /\ cmd[n].kind = "text" =>
                                    /\ cmd[n].text.val.t \in {"int", "float"}
                                    /\ raw.t = "str" => cmd[n].text.val # raw

\* a command line built from a mapping of which one item passed and an
\* injection attempt did not
C23_Witness ==
    /\ r_pc = "command" /\ Len(execution_config) = 2 /\ Len(cmd_flags) = 1
    /\ \E i \in 1..2 : execution_config[i][2] = RStr(StrInject)
    /\ Len(CmdArgs(cmd_flags)) = 8

\* C29 (as stated): every call returns a mapping; a failure yields status
\* 'error', no predictions and confidence 0; predictions are non-empty only
\* with status 'success'; and on every return the temporary input and
\* output files of the call have been deleted.
C29_ErrorMappingAndCleanup ==
    ExecReturned =>
        /\ e_ret.status \in {"success", "error"}
        /\ e_ret.status = "error" => e_ret.predictions = 0 /\ e_ret.confidence = 0
        /\ e_ret.predictions > 0 => e_ret.status = "success"
        /\ e_files = {}

\* what holds of every return: the mapping is as stated, the files are
\* deleted on the success path, and every error path leaves the input file
\* behind
ErrorMappingCleanupOnSuccess ==
    ExecReturned =>
        /\ e_ret.status \in {"success", "error"}
        /\ e_ret.status = "error" => e_ret.predictions = 0 /\ e_ret.confidence = 0
        /\ e_ret.predictions > 0 => e_ret.status = "success"
        /\ e_ret.status = "success" <=> e_proc.end = "zero"
        /\ e_ret.status = "success" => e_files = {}
        /\ e_ret.status = "error" => InputFile \in e_files

-----------------------------------------------------------------------------
(* Properties of the optimizer's statements *)

\* the statements of the loop body, in the order of the code
BodyOrder ==
    {<<"forward", "loss">>, <<"loss", "backward">>, <<"backward", "update">>,
     <<"update", "clamp">>, <<"clamp", "forward">>}

\* the iterations the request asks for
Asked == IF p_req.steps > 0 THEN p_req.steps ELSE 0

\* the decision array the call starts from
StartValue == IF p_req.has_base THEN p_req.x0 ELSE 0

\* one step of a call as the claim orders the statements
OrderAsStated ==
    LET move == <<p_pc, p_pc'>>
    IN  move \in BodyOrder \cup
            {<<"call", "forward">>, <<"clamp", "final">>, <<"final", "done">>}

\* one step of a call as the code orders them
OrderOfTheCode ==
    LET move == <<p_pc, p_pc'>>
    IN  \/ move \in BodyOrder
        \/ move = <<"call", "forward">> /\ Asked > 0
        \/ move = <<"call", "final">> /\ Asked = 0
        \/ move = <<"clamp", "final">> /\ p_k' = Asked
        \/ move = <<"final", "done">>

\* C22 (as stated): every invocation passes through Initialized, Iterating
\* and Finalized in that order; inside an iteration the order is forward
\* evaluation, loss, gradient, update, clamp, and no update is followed by a
\* forward evaluation or by finalization without a clamp between; and
\* denormalization happens exactly once, after the last clamp.
C22_ProtocolOrder ==
    /\ [][OrderAsStated]_vars
    /\ [](p_pc = "done" => p_denorm = 1)

\* C22 (amended): an invocation goes from Initialized through its
\* iterations to Finalized and never back; with steps <= 0 it goes from
\* Initialized to Finalized directly.  Inside an iteration the order is
\* forward evaluation, loss, gradient, update, clamp; every update is
\* followed by a clamp before the next forward evaluation or the
\* finalization.  Denormalization happens after the last clamp, once when
\* return_raw is true and not at all when it is false.
C22_ProtocolOrderByFlag ==
    /\ [][OrderOfTheCode]_vars
    /\ [](p_denorm = (IF p_pc = "done" /\ p_req.raw THEN 1 ELSE 0))

\* a call of two iterations has returned normalized values
C22_Witness ==
    /\ p_pc = "done" /\ p_k = 2 /\ ~p_req.raw /\ p_denorm = 0 /\ p_out.some

\* C26: throughout the call xz0 keeps the values the decision array was
\* initialized with, whatever the in-place update and the in-place clamp
\* write; the tensor base of every iteration holds those values, and
\* loss_dev is measured against them.
C26_BaselineFrame ==
    p_pc \notin {"idle", "call"} =>
        /\ p_xz0 = StartValue
        /\ (p_req.has_base /\ (p_k >= 1 \/ p_pc \in {"backward", "update", "clamp"}))
              => p_base = StartValue
        /\ (p_req.has_base /\ p_pc \in {"backward", "update"})
              => p_dev = (p_x - StartValue) * (p_x - StartValue)
        /\ (~p_req.has_base) => p_dev = 0

\* a later iteration measures a decision array that has left its baseline
C26_Witness ==
    /\ p_req.has_base /\ p_pc = "backward" /\ p_k >= 1
    /\ p_x # p_xz0 /\ p_dev > 0 /\ p_base = p_req.x0

-----------------------------------------------------------------------------
(* Properties of repeated optimize calls *)

-----------------------------------------------------------------------------
(* Properties of the parameter-to-node mapping *)

\* the places (channel, node) of the result that hold the value v at (b, t)
PlacesOf(x4, b, t, v) ==
    {pl \in (0..2) \X (0..2) : x4[b][pl[1]][t][pl[2]] = v}

\* C24: an input [B,8,T] gives a [B,3,T,3] array in which node 0 carries the
\* parameter channels 0-2, node 1 the channels 3-5 and node 2 the channels
\* 6-7 and one channel that is zero everywhere; each of the 8 parameter
\* channels is in the result exactly once; an input with another channel
\* count is rejected by the assertion.
C24_ParameterToNode ==
    (f_fn = "flat8_to_stgcn_x" /\ f_pc = "returned") =>
        LET p8 == f_arg.p8
            x4 == f_res.out
        IN  IF Cardinality(DOMAIN p8[1]) = 8
            THEN /\ f_res.exc = "none"
                 /\ DOMAIN x4 = DOMAIN p8
                 /\ \A b \in DOMAIN p8 :
                       /\ DOMAIN x4[b] = 0..2
                       /\ \A i \in 0..2 :
                             /\ DOMAIN x4[b][i] = DOMAIN p8[b][0]
                             /\ \A t \in DOMAIN p8[b][0] :
                                   /\ DOMAIN x4[b][i][t] = 0..2
                                   /\ x4[b][i][t][0] = p8[b][i][t]
                                   /\ x4[b][i][t][1] = p8[b][3 + i][t]
                                   /\ x4[b][i][t][2] =
                                         (IF i < 2 THEN p8[b][6 + i][t] ELSE 0)
                       /\ \A c \in 0..7 : \A t \in DOMAIN p8[b][0] :
                             Cardinality(PlacesOf(x4, b, t, p8[b][c][t])) = 1
            ELSE f_res.exc = "AssertionError" /\ f_res.out = <<>>

\* a batch of two eight-channel trajectories of two steps has been mapped
C24_Witness ==
    /\ f_fn = "flat8_to_stgcn_x" /\ f_pc = "returned" /\ f_res.exc = "none"
    /\ Cardinality(DOMAIN f_arg.p8) = 2 /\ Cardinality(DOMAIN f_arg.p8[1][0]) = 2
    /\ f_res.out[2][2][2][2] = 0 /\ f_res.out[2][1][2][2] = f_arg.p8[2][7][2]

-----------------------------------------------------------------------------
(* Properties of the fallback forward of ModelRunner *)

\* the run_model calls made so far
Ran == {c \in Runs : m_ret[c] # NotRun}

\* what run_model hands to the model: the prepared inputs, when prepare_data
\* returned
Handed == prepare_data(m_data, m_specs, m_extra)

\* the shape the claim gives for an input of shape sh
StatedShape(sh) ==
    IF Len(sh) = 2 THEN <<1, sh[2]>>
    ELSE IF Len(sh) >= 3 THEN <<sh[1], 1, sh[Len(sh)]>>
    ELSE <<1, 3>>

\* the shape of the first input as an array: a number is wrapped into [x]
AsArray(v) == IF v.kind = "number" THEN <<1>> ELSE v.shape

Numeric(v) == v.kind \in {"tensor", "number"} \/ (v.kind = "list" /\ ~v.ragged)

\* C25 as stated: whatever reaches forward, the call does not fail in
\* forward and returns an array of the stated shape ([1,F] for [T,F],
\* [B,1,F] for rank 3 or higher, [1,3] for rank below 2 and for no input).
C25_FallbackNeverFails ==
    \A c \in Ran :
        Handed.exc = "none" =>
            /\ m_ret[c].exc = "none"
            /\ m_ret[c].shape =
                  (IF Handed.inputs = <<>> THEN <<1, 3>>
                   ELSE StatedShape(AsArray(Handed.inputs[1])))

\* C25 amended: on a tensor, a number or a rectangular list of numbers the
\* call does not fail and returns an array of the stated shape, the same
\* shape in every call on the same input and drawn at a new position of the
\* generator; a string or a ragged list that reaches forward raises there.
C25_FallbackOnArrays ==
    /\ \A c \in Ran :
          Handed.exc = "none" =>
              IF Handed.inputs = <<>>
              THEN m_ret[c].exc = "none" /\ m_ret[c].shape = <<1, 3>>
              ELSE IF Numeric(Handed.inputs[1])
              THEN /\ m_ret[c].exc = "none"
                   /\ m_ret[c].shape = StatedShape(AsArray(Handed.inputs[1]))
              ELSE m_ret[c].exc = "forward"
    /\ \A c \in Ran : \A d \in Ran :
          (m_ret[c].exc = "none" /\ m_ret[d].exc = "none") =>
              /\ m_ret[c].shape = m_ret[d].shape
              /\ c # d => m_ret[c].at # m_ret[d].at

\* two calls on the same rank-4 input have returned a [B,1,F] array each,
\* named in model_output, and the two arrays were drawn at different
\* positions of the generator
C25_Witness ==
    /\ Ran = Runs
    /\ Len(m_data) > 0 /\ Len(m_data[1].shape) = 4
    /\ m_data[1].shape[1] = 2 /\ m_data[1].shape[4] = 2 /\ m_data[1].shape[2] = 1
    /\ \A c \in Runs : /\ m_ret[c].exc = "none" /\ m_ret[c].named
                       /\ m_ret[c].shape = <<2, 1, 2>>
    /\ m_ret[1].at # m_ret[2].at

=============================================================================
